---- MODULE Spec2Model ----
(***************************************************************************)
(* Model of the VideoConvert pipeline: the bulk conversion queue of        *)
(* app.py (process_conversion_queue, update_queue_status,                  *)
(* bulk_convert_videos) and the media pipelines of csv_to_video_ffmpeg.py  *)
(* and app.py.                                                             *)
(***************************************************************************)
EXTENDS Integers, Sequences, FiniteSets, TLC

\* ------------------------------------------------------------------------
\* Bounds of the model
\* ------------------------------------------------------------------------
MaxJobs == 3
MaxRows == 2
MaxImages == 1
MaxFragments == 1
MaxAudio == 2
MaxPeriod == 2
MaxScenes == 2
MaxParts == 2
TimerMaxAudio == 10
TimerMaxPeriod == 4
TimerMaxImages == 3
SrtMaxAudio == 6
MaxColumns == 3

\* ------------------------------------------------------------------------
\* Program constants
\* ------------------------------------------------------------------------
MAX_CONCURRENT_CONVERSIONS == 2

\* csv_to_video: the accepted range of duration_per_scene and its default.
MIN_DURATION_PER_SCENE == 1
MAX_DURATION_PER_SCENE == 30
DEFAULT_DURATION_PER_SCENE == 5

\* The pool of threads running process_conversion_queue: the smallest pool
\* in which a worker can find the cap reached (one more than the cap).
NumWorkers == MAX_CONCURRENT_CONVERSIONS + 1

Workers == 1..NumWorkers
Jobs == 1..MaxJobs

\* Python's None for a string argument, and the absent download_url.
None == "None"
NoUrl == <<>>
NoItem == 0
NoThread == 0

VARIABLES
  \* app.py module state
  conversion_queue,        \* queue.Queue(): sequence of file ids
  queue_status,            \* dict file_id -> entry (status "absent" = no key)
  active_conversions,      \* the counter
  active_conversions_lock, \* thread holding the counter lock
  queue_lock,              \* thread holding the status-table lock
  convert_calls,           \* file_id -> calls of convert_webm_to_mp4 made
  \* process_conversion_queue: one frame per worker thread
  wpc, witem, wres,
  \* bulk_convert_videos: the request handler's frame
  hpc, hitem, uploaded,
  \* the media entry points (csv_to_video_ffmpeg.py, app.py)
  entry, mpc, opts, csv_rows, row_num, product_videos, attempts, unit, ret,
  temp_image_dir,
  \* a single call of one of the helper functions: its position, its
  \* arguments and its locals
  fpc, fargs, flocals

qvars == <<conversion_queue, queue_status, active_conversions,
           active_conversions_lock, queue_lock, convert_calls,
           wpc, witem, wres, hpc, hitem, uploaded>>

mvars == <<entry, mpc, opts, csv_rows, row_num, product_videos, attempts,
           unit, ret, temp_image_dir>>

fvars == <<fpc, fargs, flocals>>

vars == <<qvars, mvars, fvars>>

\* ------------------------------------------------------------------------
\* update_queue_status (app.py 43-62), the body executed under queue_lock
\* ------------------------------------------------------------------------
NoEntry == [status |-> "absent", message |-> "", download_url |-> NoUrl,
            filename |-> None]

update_queue_status(qs, file_id, status, message, download_url, filename) ==
  IF qs[file_id].status = "absent"
  THEN [qs EXCEPT ![file_id] =
          [status |-> status,
           message |-> IF message = None THEN "" ELSE message,
           download_url |-> download_url,
           filename |-> filename]]
  ELSE [qs EXCEPT ![file_id] =
          [status |-> status,
           message |-> IF message # None /\ message # "" THEN message
                       ELSE @.message,
           download_url |-> IF download_url # NoUrl THEN download_url
                            ELSE @.download_url,
           filename |-> IF filename # None THEN filename ELSE @.filename]]

DownloadUrl(file_id) == <<"/api/download/", file_id>>

\* ------------------------------------------------------------------------
\* convert_webm_to_mp4 (app.py 178-213): the result pair for each way the
\* ffmpeg invocation can end
\* ------------------------------------------------------------------------
RunOutcomes == {"exit0", "nonzero", "timeout", "oserror"}

convert_webm_to_mp4(o) ==
  IF o = "exit0" THEN [raised |-> FALSE, success |-> TRUE,
                       message |-> "Conversion successful"]
  ELSE IF o = "nonzero" THEN [raised |-> FALSE, success |-> FALSE,
                       message |-> "FFmpeg conversion failed: stderr"]
  ELSE IF o = "timeout" THEN [raised |-> FALSE, success |-> FALSE,
                       message |-> "Conversion timed out - file may be too large"]
  ELSE [raised |-> FALSE, success |-> FALSE,
        message |-> "Conversion error: e"]

\* An exception that escapes the call (the worker's own handler, 107-109).
Raised == [raised |-> TRUE, success |-> FALSE, message |-> "e"]

NoResult == [raised |-> FALSE, success |-> FALSE, message |-> ""]

ConversionResults == {convert_webm_to_mp4(o) : o \in RunOutcomes} \cup {Raised}

\* ------------------------------------------------------------------------
\* Initial state: module import (app.py 30-41), one idle handler
\* ------------------------------------------------------------------------
QInit ==
  /\ conversion_queue = <<>>
  /\ queue_status = [j \in Jobs |-> NoEntry]
  /\ active_conversions = 0
  /\ active_conversions_lock = NoThread
  /\ queue_lock = NoThread
  /\ convert_calls = [j \in Jobs |-> 0]
  /\ wpc = [w \in Workers |-> "get"]
  /\ witem = [w \in Workers |-> NoItem]
  /\ wres = [w \in Workers |-> NoResult]
  /\ hpc = "idle"
  /\ hitem = NoItem
  /\ uploaded = 0

\* ------------------------------------------------------------------------
\* bulk_convert_videos (app.py 1041-1091): one iteration per uploaded file
\* ------------------------------------------------------------------------
\* 1045-1050, 1068-1075: the file is rejected, nothing is enqueued
HandlerReject ==
  /\ hpc = "idle"
  /\ uploaded < MaxJobs
  /\ uploaded' = uploaded + 1
  /\ UNCHANGED <<conversion_queue, queue_status, active_conversions,
                 active_conversions_lock, wpc, witem, wres, hpc, hitem>>
  /\ UNCHANGED <<queue_lock, convert_calls>>
  /\ UNCHANGED <<mvars, fvars>>

\* 1078-1083: conversion_queue.put(item)
HandlerPut ==
  /\ hpc = "idle"
  /\ uploaded < MaxJobs
  /\ uploaded' = uploaded + 1
  /\ hitem' = uploaded + 1
  /\ conversion_queue' = Append(conversion_queue, uploaded + 1)
  /\ hpc' = "init"
  /\ UNCHANGED <<queue_status, active_conversions,
                 active_conversions_lock, wpc, witem, wres>>
  /\ UNCHANGED <<queue_lock, convert_calls>>
  /\ UNCHANGED <<mvars, fvars>>

\* 1086: update_queue_status(file_id, 'queued', 'Waiting in queue...',
\* filename=original_filename), the whole with-block
HandlerInit ==
  /\ hpc = "init"
  /\ queue_status' = update_queue_status(queue_status, hitem, "queued",
                        "Waiting in queue...", NoUrl, "original_filename")
  /\ hpc' = "idle"
  /\ hitem' = NoItem
  /\ UNCHANGED <<conversion_queue, active_conversions,
                 active_conversions_lock, wpc, witem, wres, uploaded>>
  /\ UNCHANGED <<queue_lock, convert_calls>>
  /\ UNCHANGED <<mvars, fvars>>

\* ------------------------------------------------------------------------
\* process_conversion_queue (app.py 64-123): one loop iteration of worker w
\* ------------------------------------------------------------------------
\* 71: item = conversion_queue.get(), blocking while the queue is empty
WorkerGet(w) ==
  /\ wpc[w] = "get"
  /\ conversion_queue # <<>>
  /\ witem' = [witem EXCEPT ![w] = Head(conversion_queue)]
  /\ conversion_queue' = Tail(conversion_queue)
  /\ wpc' = [wpc EXCEPT ![w] = "mark"]
  /\ UNCHANGED <<queue_status, active_conversions,
                 active_conversions_lock, wres, hpc, hitem, uploaded>>
  /\ UNCHANGED <<queue_lock, convert_calls>>
  /\ UNCHANGED <<mvars, fvars>>

\* 81: update_queue_status(file_id, 'processing', 'Conversion in progress...')
WorkerMark(w) ==
  /\ wpc[w] = "mark"
  /\ queue_status' = update_queue_status(queue_status, witem[w], "processing",
                        "Conversion in progress...", NoUrl, None)
  /\ wpc' = [wpc EXCEPT ![w] = "check"]
  /\ UNCHANGED <<conversion_queue, active_conversions,
                 active_conversions_lock, witem, wres, hpc, hitem, uploaded>>
  /\ UNCHANGED <<queue_lock, convert_calls>>
  /\ UNCHANGED <<mvars, fvars>>

\* The test letting one conversion more than the cap in.
AtCapacity_Above(n) == n > MAX_CONCURRENT_CONVERSIONS

\* 85: the admission test made under active_conversions_lock
AtCapacity(n) == n >= MAX_CONCURRENT_CONVERSIONS

\* 84-88: at the cap the item is put back and the worker sleeps inside the
\* with block, i.e. still holding active_conversions_lock
WorkerRequeue(w) ==
  /\ wpc[w] = "check"
  /\ active_conversions_lock = NoThread
  /\ AtCapacity(active_conversions)
  /\ conversion_queue' = Append(conversion_queue, witem[w])
  /\ active_conversions_lock' = w
  /\ wpc' = [wpc EXCEPT ![w] = "sleep"]
  /\ UNCHANGED <<queue_status, active_conversions,
                 witem, wres, hpc, hitem, uploaded>>
  /\ UNCHANGED <<queue_lock, convert_calls>>
  /\ UNCHANGED <<mvars, fvars>>

\* The loop going on with the item it has put back instead of continue.
WorkerWake_Retries(w) ==
  /\ wpc[w] = "sleep"
  /\ active_conversions_lock = w
  /\ active_conversions_lock' = NoThread
  /\ wpc' = [wpc EXCEPT ![w] = "check"]
  /\ UNCHANGED <<conversion_queue, queue_status,
                 active_conversions, witem, wres, hpc, hitem, uploaded>>
  /\ UNCHANGED <<queue_lock, convert_calls>>
  /\ UNCHANGED <<mvars, fvars>>

\* 88-89: time.sleep(1) returns, continue leaves the with block
WorkerWake(w) ==
  /\ wpc[w] = "sleep"
  /\ active_conversions_lock = w
  /\ active_conversions_lock' = NoThread
  /\ witem' = [witem EXCEPT ![w] = NoItem]
  /\ wpc' = [wpc EXCEPT ![w] = "get"]
  /\ UNCHANGED <<conversion_queue, queue_status,
                 active_conversions, wres, hpc, hitem, uploaded>>
  /\ UNCHANGED <<queue_lock, convert_calls>>
  /\ UNCHANGED <<mvars, fvars>>

\* 84-94: below the cap the counter is incremented, the lock released and
\* convert_webm_to_mp4(input_path, output_path) called
WorkerAdmit(w) ==
  /\ wpc[w] = "check"
  /\ active_conversions_lock = NoThread
  /\ ~AtCapacity(active_conversions)
  /\ active_conversions' = active_conversions + 1
  /\ convert_calls' = [convert_calls EXCEPT ![witem[w]] = @ + 1]
  /\ wpc' = [wpc EXCEPT ![w] = "convert"]
  /\ UNCHANGED <<conversion_queue, queue_status,
                 active_conversions_lock, witem, wres, hpc, hitem, uploaded>>
  /\ UNCHANGED queue_lock
  /\ UNCHANGED <<mvars, fvars>>

\* 96-109: the terminal status written for the result r of the call
FinishStatus(qs, file_id, r) ==
  IF r.raised
  THEN update_queue_status(qs, file_id, "error",
                           "Processing error: " \o r.message, NoUrl, None)
  ELSE IF r.success
  THEN update_queue_status(qs, file_id, "completed",
                           "Conversion completed successfully",
                           DownloadUrl(file_id), "original_filename")
  ELSE update_queue_status(qs, file_id, "error", r.message, NoUrl, None)

\* 94-109: convert_webm_to_mp4 returns (or raises) and the terminal status
\* is written; the worker is inside the call while wpc[w] = "convert"
WorkerFinish(w) ==
  /\ wpc[w] = "convert"
  /\ \E r \in ConversionResults :
       /\ wres' = [wres EXCEPT ![w] = r]
       /\ queue_status' = FinishStatus(queue_status, witem[w], r)
  /\ wpc' = [wpc EXCEPT ![w] = "release"]
  /\ UNCHANGED <<conversion_queue, active_conversions,
                 active_conversions_lock, witem, hpc, hitem, uploaded>>
  /\ UNCHANGED <<queue_lock, convert_calls>>
  /\ UNCHANGED <<mvars, fvars>>

\* The decrement left out of the finally block.
ReleaseSlot_Skipped(n) == n

\* 116: active_conversions -= 1
ReleaseSlot(n) == n - 1

\* 110-119: finally: cleanup_file, decrement under the lock, task_done
WorkerRelease(w) ==
  /\ wpc[w] = "release"
  /\ active_conversions_lock = NoThread
  /\ active_conversions' = ReleaseSlot(active_conversions)
  /\ witem' = [witem EXCEPT ![w] = NoItem]
  /\ wres' = [wres EXCEPT ![w] = NoResult]
  /\ wpc' = [wpc EXCEPT ![w] = "get"]
  /\ UNCHANGED <<conversion_queue, queue_status,
                 active_conversions_lock, hpc, hitem, uploaded>>
  /\ UNCHANGED <<queue_lock, convert_calls>>
  /\ UNCHANGED <<mvars, fvars>>

process_conversion_queue(w) ==
  \/ WorkerGet(w)
  \/ WorkerMark(w)
  \/ WorkerRequeue(w)
  \/ WorkerWake(w)
  \/ WorkerAdmit(w)
  \/ WorkerFinish(w)
  \/ WorkerRelease(w)

bulk_convert_videos ==
  \/ HandlerReject
  \/ HandlerPut
  \/ HandlerInit

QNext ==
  \/ bulk_convert_videos
  \/ \E w \in Workers : process_conversion_queue(w)

\* ------------------------------------------------------------------------
\* External invocations: how a subprocess.run of ffmpeg can end, and how the
\* speech provider can answer
\* ------------------------------------------------------------------------
StageOutcomes == {"exit0", "nonzero", "timeout"}
ProviderOutcomes == {"audio", "http_error", "no_audio", "exception"}

Stages == {"wav", "scale", "slideshow", "subtitles", "watermark", "mux",
           "concat", "video"}
NoStages == [s \in Stages |-> "none"]

slideshow_path == "slideshow.mp4"
subtitled_mp4 == "subtitled.mp4"
watermarked_mp4 == "watermarked.mp4"

Max(a, b) == IF a >= b THEN a ELSE b
Min(a, b) == IF a <= b THEN a ELSE b

\* ------------------------------------------------------------------------
\* synthesize_speech_with_gemini (csv_to_video_ffmpeg.py 17-99): the result
\* pair, the number of requests.post calls made and whether output_path was
\* written, for a credential passed in (api_key), one in the environment
\* (env_key) and the provider's answer
\* ------------------------------------------------------------------------
\* The request posted before the credential is looked at.
synthesize_speech_with_gemini_PostFirst(api_key, env_key, provider) ==
  IF ~(api_key \/ env_key)
  THEN [success |-> FALSE, message |-> "GEMINI_API_KEY not set",
        requests |-> 1, wrote |-> FALSE]
  ELSE IF provider = "audio"
  THEN [success |-> TRUE, message |-> "Speech synthesized successfully",
        requests |-> 1, wrote |-> TRUE]
  ELSE [success |-> FALSE, message |-> "Gemini TTS API error: 400",
        requests |-> 1, wrote |-> FALSE]

synthesize_speech_with_gemini(api_key, env_key, provider) ==
  IF ~(api_key \/ env_key)
  THEN [success |-> FALSE, message |-> "GEMINI_API_KEY not set",
        requests |-> 0, wrote |-> FALSE]
  ELSE IF provider = "exception"
  THEN [success |-> FALSE, message |-> "Error synthesizing speech: e",
        requests |-> 1, wrote |-> FALSE]
  ELSE IF provider = "http_error"
  THEN [success |-> FALSE, message |-> "Gemini TTS API error: 400",
        requests |-> 1, wrote |-> FALSE]
  ELSE IF provider = "no_audio"
  THEN [success |-> FALSE, message |-> "No audio data found in response",
        requests |-> 1, wrote |-> FALSE]
  ELSE [success |-> TRUE, message |-> "Speech synthesized successfully",
        requests |-> 1, wrote |-> TRUE]

\* ------------------------------------------------------------------------
\* The locals of one unit of work (create_video_from_product_data,
\* create_video_from_images, render_video_from_assets)
\* ------------------------------------------------------------------------
NoSynth == [called |-> FALSE, success |-> FALSE, message |-> ""]
NoUnitResult == [returned |-> FALSE, success |-> FALSE, message |-> ""]

NewUnit ==
  [temp_dir |-> "none", image_count |-> 0, fragments |-> 0,
   synth |-> NoSynth, tts_requests |-> 0, audio_written |-> FALSE,
   audio_duration |-> 0, num_scenes |-> 0, i |-> 0,
   stage_out |-> NoStages, subtitled_path |-> "", watermarked_path |-> "",
   video_for_mux |-> "", audio_files |-> 0, frames |-> 0, scenes |-> <<>>,
   durations |-> 0, result |-> NoUnitResult]

DefaultOpts ==
  [api_key |-> FALSE, env_key |-> FALSE, show_subtitles |-> TRUE,
   watermark |-> FALSE, duration_per_scene |-> 1]

\* The request parameters (app.py 1142-1152, 800-806) and the process
\* environment.
OptionSets ==
  [api_key : BOOLEAN, env_key : BOOLEAN, show_subtitles : BOOLEAN,
   watermark : BOOLEAN, duration_per_scene : 1..MaxPeriod]

NoReturn == [returned |-> FALSE, success |-> FALSE, videos |-> <<>>,
             message |-> "", code |-> 0]

\* ------------------------------------------------------------------------
\* The media entry points: no request in progress
\* ------------------------------------------------------------------------
MInit ==
  /\ entry = "none"
  /\ mpc = "idle"
  /\ opts = DefaultOpts
  /\ csv_rows = 0
  /\ row_num = 0
  /\ product_videos = <<>>
  /\ attempts = <<>>
  /\ unit = NewUnit
  /\ ret = NoReturn
  /\ temp_image_dir = "none"

\* No helper function is being called.
FIdle ==
  /\ fpc = "idle"
  /\ fargs = <<>>
  /\ flocals = <<>>

Init == QInit /\ MInit /\ FIdle

\* The conversion queue: the bulk-convert handler and the worker pool.
QSpec == Init /\ [][QNext]_vars

\* ------------------------------------------------------------------------
\* create_video_from_product_data (csv_to_video_ffmpeg.py 172-459)
\* ------------------------------------------------------------------------
\* A return of the unit: the result pair, logged in attempts.
Returned(u, success, message) ==
  [u EXCEPT !.result = [returned |-> TRUE, success |-> success,
                        message |-> message]]

UnitReturns(success, message) ==
  /\ unit' = Returned(unit, success, message)
  /\ attempts' = Append(attempts, [row |-> row_num, success |-> success])
  /\ mpc' = "append"

\* The same with locals changed by the step that returns.
UnitReturnsWith(u, success, message) ==
  /\ unit' = Returned(u, success, message)
  /\ attempts' = Append(attempts, [row |-> row_num, success |-> success])
  /\ mpc' = "append"

\* 452-455: subprocess.TimeoutExpired reaches the function's own handler
TimedOut(u) == UnitReturnsWith(u, FALSE, "Video creation timed out")

\* 234-235: no image was downloaded
UnitNoImages ==
  /\ entry = "csv_ffmpeg" /\ mpc = "unit"
  /\ unit.image_count = 0
  /\ UnitReturns(FALSE, "No valid images found for product")
  /\ UNCHANGED <<entry, opts, csv_rows, row_num, product_videos, ret>>
  /\ UNCHANGED <<temp_image_dir, qvars, fvars>>

\* The empty narration sent to the provider all the same.
UnitNoNarration_Synthesizes ==
  /\ entry = "csv_ffmpeg" /\ mpc = "unit"
  /\ unit.image_count > 0
  /\ unit.fragments = 0
  /\ UnitReturnsWith([unit EXCEPT !.synth.called = TRUE, !.tts_requests = @ + 1],
                     FALSE, "No narration content generated")
  /\ UNCHANGED <<entry, opts, csv_rows, row_num, product_videos, ret>>
  /\ UNCHANGED <<temp_image_dir, qvars, fvars>>

\* 274-277: the joined narration is empty
UnitNoNarration ==
  /\ entry = "csv_ffmpeg" /\ mpc = "unit"
  /\ unit.image_count > 0
  /\ unit.fragments = 0
  /\ UnitReturns(FALSE, "No narration content generated")
  /\ UNCHANGED <<entry, opts, csv_rows, row_num, product_videos, ret>>
  /\ UNCHANGED <<temp_image_dir, qvars, fvars>>

\* 279-284: synthesize_speech_with_gemini(full_narration, ...)
UnitSynthesize ==
  /\ entry = "csv_ffmpeg" /\ mpc = "unit"
  /\ unit.image_count > 0
  /\ unit.fragments > 0
  /\ \E p \in ProviderOutcomes :
       LET r == synthesize_speech_with_gemini(opts.api_key, opts.env_key, p)
           u == [unit EXCEPT
                   !.synth = [called |-> TRUE, success |-> r.success,
                              message |-> r.message],
                   !.tts_requests = @ + r.requests,
                   !.audio_written = r.wrote]
       IN  IF r.success
           THEN /\ unit' = u
                /\ mpc' = "wav"
                /\ UNCHANGED attempts
           ELSE UnitReturnsWith(u, FALSE,
                                "Failed to synthesize speech: " \o r.message)
  /\ UNCHANGED <<entry, opts, csv_rows, row_num, product_videos, ret>>
  /\ UNCHANGED <<temp_image_dir, qvars, fvars>>

\* 286-291 with convert_audio_to_wav (140-170), which handles its own
\* timeout
UnitWav ==
  /\ entry = "csv_ffmpeg" /\ mpc = "wav"
  /\ \E o \in StageOutcomes :
       LET u == [unit EXCEPT !.stage_out["wav"] = o]
       IN  IF o = "exit0"
           THEN /\ unit' = u
                /\ mpc' = "probe"
                /\ UNCHANGED attempts
           ELSE UnitReturnsWith(u, FALSE, "Failed to convert audio")
  /\ UNCHANGED <<entry, opts, csv_rows, row_num, product_videos, ret>>
  /\ UNCHANGED <<temp_image_dir, qvars, fvars>>

\* The quotient rounded up instead of down.
NumScenes_Ceil(audio_duration, duration_per_scene) ==
  Max(1, (audio_duration + duration_per_scene - 1) \div duration_per_scene)

\* 305: num_scenes = max(1, int(audio_duration / duration_per_scene))
NumScenes(audio_duration, duration_per_scene) ==
  Max(1, audio_duration \div duration_per_scene)

\* 293-306: the probed (or estimated) audio duration and the scene count
UnitProbe ==
  /\ entry = "csv_ffmpeg" /\ mpc = "probe"
  /\ \E d \in 0..MaxAudio :
       unit' = [unit EXCEPT !.audio_duration = d,
                            !.num_scenes = NumScenes(d, opts.duration_per_scene),
                            !.i = 0]
  /\ mpc' = "scene"
  /\ UNCHANGED <<entry, opts, csv_rows, row_num, product_videos, attempts, ret>>
  /\ UNCHANGED <<temp_image_dir, qvars, fvars>>

\* The scale/pad outcome kept for the unit: the worst one over its scenes.
Worst(seen, o) ==
  IF seen = "timeout" \/ o = "timeout" THEN "timeout"
  ELSE IF seen = "nonzero" \/ o = "nonzero" THEN "nonzero"
  ELSE "exit0"

\* 310-341: scale/pad of scene i; a non-zero exit is replaced by a blank
\* frame made by a second invocation whose exit code is not read
UnitScene ==
  /\ entry = "csv_ffmpeg" /\ mpc = "scene"
  /\ unit.i < unit.num_scenes
  /\ \E o \in StageOutcomes, o2 \in StageOutcomes :
       LET u == [unit EXCEPT !.stage_out["scale"] = Worst(@, o)]
       IN  IF o = "exit0" \/ (o = "nonzero" /\ o2 # "timeout")
           THEN /\ unit' = [u EXCEPT !.i = @ + 1]
                /\ mpc' = "scene"
                /\ UNCHANGED attempts
           ELSE TimedOut(u)
  /\ UNCHANGED <<entry, opts, csv_rows, row_num, product_videos, ret>>
  /\ UNCHANGED <<temp_image_dir, qvars, fvars>>

\* 343-372: the concat playlist and the slideshow
UnitSlideshow ==
  /\ entry = "csv_ffmpeg" /\ mpc = "scene"
  /\ unit.i = unit.num_scenes
  /\ \E o \in StageOutcomes :
       LET u == [unit EXCEPT !.stage_out["slideshow"] = o]
       IN  IF o = "exit0"
           THEN /\ unit' = u
                /\ mpc' = "subtitles"
                /\ UNCHANGED attempts
           ELSE IF o = "nonzero"
           THEN UnitReturnsWith(u, FALSE, "FFmpeg slideshow creation failed")
           ELSE TimedOut(u)
  /\ UNCHANGED <<entry, opts, csv_rows, row_num, product_videos, ret>>
  /\ UNCHANGED <<temp_image_dir, qvars, fvars>>

\* 397: subtitled_path after a failed burn-in
SubtitleFallback == slideshow_path

\* 374-397: subtitle burn-in
UnitSubtitles ==
  /\ entry = "csv_ffmpeg" /\ mpc = "subtitles"
  /\ opts.show_subtitles
  /\ \E o \in StageOutcomes :
       LET u == [unit EXCEPT !.stage_out["subtitles"] = o]
       IN  IF o = "exit0"
           THEN /\ unit' = [u EXCEPT !.subtitled_path = subtitled_mp4]
                /\ mpc' = "watermark"
                /\ UNCHANGED attempts
           ELSE IF o = "nonzero"
           THEN /\ unit' = [u EXCEPT !.subtitled_path = SubtitleFallback]
                /\ mpc' = "watermark"
                /\ UNCHANGED attempts
           ELSE TimedOut(u)
  /\ UNCHANGED <<entry, opts, csv_rows, row_num, product_videos, ret>>
  /\ UNCHANGED <<temp_image_dir, qvars, fvars>>

\* 398-399: subtitles disabled
UnitSubtitlesOff ==
  /\ entry = "csv_ffmpeg" /\ mpc = "subtitles"
  /\ ~opts.show_subtitles
  /\ unit' = [unit EXCEPT !.subtitled_path = slideshow_path]
  /\ mpc' = "watermark"
  /\ UNCHANGED <<entry, opts, csv_rows, row_num, product_videos, attempts, ret>>
  /\ UNCHANGED <<temp_image_dir, qvars, fvars>>

\* The watermark fallback forgetting the subtitled video.
WatermarkFallback_Slideshow(subtitled_path) == slideshow_path

\* 419: watermarked_path after a failed watermark
WatermarkFallback(subtitled_path) == subtitled_path

\* 401-419: watermark overlay on subtitled_path
UnitWatermark ==
  /\ entry = "csv_ffmpeg" /\ mpc = "watermark"
  /\ opts.watermark
  /\ \E o \in StageOutcomes :
       LET u == [unit EXCEPT !.stage_out["watermark"] = o]
       IN  IF o = "exit0"
           THEN /\ unit' = [u EXCEPT !.watermarked_path = watermarked_mp4]
                /\ mpc' = "mux"
                /\ UNCHANGED attempts
           ELSE IF o = "nonzero"
           THEN /\ unit' = [u EXCEPT !.watermarked_path =
                                        WatermarkFallback(unit.subtitled_path)]
                /\ mpc' = "mux"
                /\ UNCHANGED attempts
           ELSE TimedOut(u)
  /\ UNCHANGED <<entry, opts, csv_rows, row_num, product_videos, ret>>
  /\ UNCHANGED <<temp_image_dir, qvars, fvars>>

\* 420-421: no watermark text
UnitWatermarkOff ==
  /\ entry = "csv_ffmpeg" /\ mpc = "watermark"
  /\ ~opts.watermark
  /\ unit' = [unit EXCEPT !.watermarked_path = unit.subtitled_path]
  /\ mpc' = "mux"
  /\ UNCHANGED <<entry, opts, csv_rows, row_num, product_videos, attempts, ret>>
  /\ UNCHANGED <<temp_image_dir, qvars, fvars>>

\* 423-440: mux of watermarked_path with the narration
UnitMux ==
  /\ entry = "csv_ffmpeg" /\ mpc = "mux"
  /\ \E o \in StageOutcomes :
       LET u == [unit EXCEPT !.stage_out["mux"] = o,
                             !.video_for_mux = unit.watermarked_path]
       IN  IF o = "exit0"
           THEN /\ unit' = u
                /\ mpc' = "cleanup"
                /\ UNCHANGED attempts
           ELSE IF o = "nonzero"
           THEN UnitReturnsWith(u, FALSE,
                                "FFmpeg video and audio combination failed")
           ELSE TimedOut(u)
  /\ UNCHANGED <<entry, opts, csv_rows, row_num, product_videos, ret>>
  /\ UNCHANGED <<temp_image_dir, qvars, fvars>>

\* 442-450: shutil.rmtree(temp_dir), whose failure is only logged
UnitCleanup ==
  /\ entry = "csv_ffmpeg" /\ mpc = "cleanup"
  /\ \E removed \in BOOLEAN :
       UnitReturnsWith(
         [unit EXCEPT !.temp_dir = IF removed THEN "deleted" ELSE "present"],
         TRUE, "Video created successfully")
  /\ UNCHANGED <<entry, opts, csv_rows, row_num, product_videos, ret>>
  /\ UNCHANGED <<temp_image_dir, qvars, fvars>>

create_video_from_product_data ==
  \/ UnitNoImages
  \/ UnitNoNarration
  \/ UnitSynthesize
  \/ UnitWav
  \/ UnitProbe
  \/ UnitScene
  \/ UnitSlideshow
  \/ UnitSubtitles
  \/ UnitSubtitlesOff
  \/ UnitWatermark
  \/ UnitWatermarkOff
  \/ UnitMux
  \/ UnitCleanup

\* ------------------------------------------------------------------------
\* process_csv_and_create_videos (csv_to_video_ffmpeg.py 498-628)
\* ------------------------------------------------------------------------
NoProduct == 0 - 1

\* 624, 628: the single entry returned when there is no manifest
AggregateError(message) ==
  <<[product_id |-> NoProduct, error |-> TRUE, message |-> message]>>

\* 528-547: the request arrives; the file is opened and sniffed, which
\* raises for a file that cannot be read as CSV
CsvStart ==
  /\ entry = "none"
  /\ entry' = "csv_ffmpeg"
  /\ opts' \in OptionSets
  /\ csv_rows' \in 0..MaxRows
  /\ row_num' = 0
  /\ product_videos' = <<>>
  /\ \E readable \in BOOLEAN :
       IF readable
       THEN /\ mpc' = "row"
            /\ UNCHANGED ret
       ELSE /\ mpc' = "done"
            /\ ret' = [returned |-> TRUE, success |-> FALSE,
                       videos |-> AggregateError("Error processing CSV file: e"),
                       message |-> "", code |-> 0]
  /\ UNCHANGED <<attempts, unit>>
  /\ UNCHANGED <<temp_image_dir, qvars, fvars>>

\* 551-597, 199-232: the next data row becomes product_data and
\* create_video_from_product_data is entered: mkdtemp, image downloads,
\* narration parts
CsvRow ==
  /\ entry = "csv_ffmpeg" /\ mpc = "row"
  /\ row_num < csv_rows
  /\ \E k \in 0..MaxImages, f \in 0..MaxFragments :
       unit' = [NewUnit EXCEPT !.temp_dir = "present", !.image_count = k,
                               !.fragments = f]
  /\ mpc' = "unit"
  /\ UNCHANGED <<entry, opts, csv_rows, row_num, product_videos, attempts, ret>>
  /\ UNCHANGED <<temp_image_dir, qvars, fvars>>

\* 599-614: the manifest entry of the row
ManifestEntry(n, result) ==
  [product_id |-> n, error |-> ~result.success, message |-> result.message]

CsvAppend ==
  /\ entry = "csv_ffmpeg" /\ mpc = "append"
  /\ product_videos' = Append(product_videos, ManifestEntry(row_num, unit.result))
  /\ row_num' = row_num + 1
  /\ mpc' = "row"
  /\ unit' = NewUnit
  /\ UNCHANGED <<entry, opts, csv_rows, attempts, ret>>
  /\ UNCHANGED <<temp_image_dir, qvars, fvars>>

Successful(videos) == {n \in 1..Len(videos) : ~videos[n].error}

\* 616-624: the value returned once the reader is exhausted
BatchResult(videos) ==
  IF videos # <<>>
  THEN [returned |-> TRUE, success |-> Successful(videos) # {},
        videos |-> videos, message |-> "", code |-> 0]
  ELSE [returned |-> TRUE, success |-> FALSE,
        videos |-> AggregateError("No valid products found in CSV file"),
        message |-> "", code |-> 0]

CsvReturn ==
  /\ entry = "csv_ffmpeg" /\ mpc = "row"
  /\ row_num = csv_rows
  /\ ret' = BatchResult(product_videos)
  /\ mpc' = "done"
  /\ UNCHANGED <<entry, opts, csv_rows, row_num, product_videos, attempts, unit>>
  /\ UNCHANGED <<temp_image_dir, qvars, fvars>>

\* 551, 626-628: the reader decodes and parses the file as it is iterated;
\* an error raised while the next row is read reaches the function's handler
CsvReadError ==
  /\ entry = "csv_ffmpeg" /\ mpc = "row"
  /\ row_num < csv_rows
  /\ ret' = [returned |-> TRUE, success |-> FALSE,
             videos |-> AggregateError("Error processing CSV file: e"),
             message |-> "", code |-> 0]
  /\ mpc' = "done"
  /\ UNCHANGED <<entry, opts, csv_rows, row_num, product_videos, attempts, unit>>
  /\ UNCHANGED <<temp_image_dir, qvars, fvars>>

process_csv_and_create_videos ==
  \/ CsvStart
  \/ CsvRow
  \/ CsvReadError
  \/ create_video_from_product_data
  \/ CsvAppend
  \/ CsvReturn

\* ------------------------------------------------------------------------
\* render_video_from_assets (app.py 774-944)
\* ------------------------------------------------------------------------
AudioSources == {"missing", "ok", "undecodable", "unsupported"}

\* scriptData.scenes: whether a scene has usable startTime/endTime (876-877)
\* and non-blank text (281)
SceneRecords == [timed : BOOLEAN, text : BOOLEAN]
SceneLists == UNION {[1..n -> SceneRecords] : n \in 0..MaxScenes}

RenderOptions ==
  {o \in OptionSets : ~o.api_key /\ ~o.env_key /\ o.duration_per_scene = 1}

Response(code, message) ==
  [returned |-> TRUE, success |-> code = 200, videos |-> <<>>,
   message |-> message, code |-> code]

\* 941-944: an exception anywhere in the handler
ServerError == Response(500, "Server error: e")

\* 797-798: images and audioSrc are required
RenderReject ==
  /\ entry = "none"
  /\ entry' = "render"
  /\ opts' \in RenderOptions
  /\ \E n \in 0..(MaxImages + 1), a \in AudioSources, sc \in SceneLists :
       /\ n = 0 \/ a = "missing"
       /\ unit' = [NewUnit EXCEPT !.image_count = n, !.scenes = sc]
  /\ ret' = Response(400, "images and audioSrc are required")
  /\ mpc' = "done"
  /\ UNCHANGED <<csv_rows, row_num, product_videos, attempts>>
  /\ UNCHANGED <<temp_image_dir, qvars, fvars>>

\* 808-836: the scratch directory is made, the audio cannot be obtained
RenderBadAudio ==
  /\ entry = "none"
  /\ entry' = "render"
  /\ opts' \in RenderOptions
  /\ \E n \in 1..(MaxImages + 1), sc \in SceneLists :
       unit' = [NewUnit EXCEPT !.image_count = n, !.scenes = sc,
                               !.temp_dir = "present"]
  /\ ret' = Response(400, "audioSrc cannot be used")
  /\ mpc' = "done"
  /\ UNCHANGED <<csv_rows, row_num, product_videos, attempts>>
  /\ UNCHANGED <<temp_image_dir, qvars, fvars>>

\* 808-848: the audio is saved, converted to WAV when that works (any
\* failure of the conversion keeps the original file) and probed
RenderAccept ==
  /\ entry = "none"
  /\ entry' = "render"
  /\ opts' \in RenderOptions
  /\ \E n \in 1..(MaxImages + 1), sc \in SceneLists, o \in StageOutcomes,
        d \in 0..MaxAudio :
       unit' = [NewUnit EXCEPT !.image_count = n, !.scenes = sc,
                               !.temp_dir = "present",
                               !.stage_out["wav"] = o,
                               !.audio_duration = d]
  /\ mpc' = "frames"
  /\ UNCHANGED <<csv_rows, row_num, product_videos, attempts, ret>>
  /\ UNCHANGED <<temp_image_dir, qvars, fvars>>

\* 851-853: the first image is dropped as a thumbnail when there is one
\* more image than scenes
ImageListLen(n_images, n_scenes) ==
  IF n_images = n_scenes + 1 THEN n_images - 1 ELSE n_images

\* 868-870
RenderNumScenes(n_scenes, n_frames) ==
  LET n == Min(IF n_scenes > 0 THEN n_scenes ELSE n_frames, n_frames)
  IN  IF n <= 0 THEN n_frames ELSE n

\* 873-882: len(durations)
DurationsLen(sc, num_scenes) ==
  LET timed == Cardinality({i \in 1..num_scenes : sc[i].timed})
  IN  IF sc # <<>> /\ timed > 0 THEN timed ELSE num_scenes

\* 855-882: frames are saved (a blank frame replaces an image that cannot be
\* obtained; that invocation can time out), scenes and durations are derived
RenderFrames ==
  /\ entry = "render" /\ mpc = "frames"
  /\ LET n == ImageListLen(unit.image_count, Len(unit.scenes))
     IN  \E blank_timeout \in BOOLEAN :
           IF n > 0 /\ blank_timeout
           THEN /\ ret' = ServerError
                /\ mpc' = "done"
                /\ UNCHANGED unit
           ELSE IF n = 0
           THEN /\ ret' = Response(400, "No valid frames available")
                /\ mpc' = "done"
                /\ UNCHANGED unit
           ELSE /\ unit' = [unit EXCEPT
                    !.frames = n,
                    !.num_scenes = RenderNumScenes(Len(unit.scenes), n),
                    !.durations = DurationsLen(unit.scenes,
                                     RenderNumScenes(Len(unit.scenes), n))]
                /\ mpc' = "playlist"
                /\ UNCHANGED ret
  /\ UNCHANGED <<entry, opts, csv_rows, row_num, product_videos, attempts>>
  /\ UNCHANGED <<temp_image_dir, qvars, fvars>>

\* 884-891: durations[i] for i in range(num_scenes) raises IndexError when
\* the list is shorter
RenderPlaylist ==
  /\ entry = "render" /\ mpc = "playlist"
  /\ IF unit.durations < unit.num_scenes
     THEN /\ ret' = ServerError
          /\ mpc' = "done"
     ELSE /\ mpc' = "slideshow"
          /\ UNCHANGED ret
  /\ UNCHANGED <<entry, opts, csv_rows, row_num, product_videos, attempts, unit>>
  /\ UNCHANGED <<temp_image_dir, qvars, fvars>>

\* 893-902
RenderSlideshow ==
  /\ entry = "render" /\ mpc = "slideshow"
  /\ \E o \in StageOutcomes :
       /\ unit' = [unit EXCEPT !.stage_out["slideshow"] = o,
                               !.video_for_mux = slideshow_path]
       /\ IF o = "exit0"
          THEN /\ mpc' = "subtitles"
               /\ UNCHANGED ret
          ELSE /\ mpc' = "done"
               /\ ret' = IF o = "nonzero"
                         THEN Response(500, "Failed to create slideshow")
                         ELSE ServerError
  /\ UNCHANGED <<entry, opts, csv_rows, row_num, product_videos, attempts>>
  /\ UNCHANGED <<temp_image_dir, qvars, fvars>>

\* 904-917: video_for_mux changes only when the burn-in exits with 0
RenderSubtitles ==
  /\ entry = "render" /\ mpc = "subtitles"
  /\ opts.show_subtitles /\ unit.scenes # <<>>
  /\ \E o \in StageOutcomes :
       /\ unit' = [unit EXCEPT
                     !.stage_out["subtitles"] = o,
                     !.video_for_mux = IF o = "exit0" THEN subtitled_mp4 ELSE @]
       /\ IF o = "timeout"
          THEN /\ mpc' = "done"
               /\ ret' = ServerError
          ELSE /\ mpc' = "watermark"
               /\ UNCHANGED ret
  /\ UNCHANGED <<entry, opts, csv_rows, row_num, product_videos, attempts>>
  /\ UNCHANGED <<temp_image_dir, qvars, fvars>>

RenderSubtitlesOff ==
  /\ entry = "render" /\ mpc = "subtitles"
  /\ ~(opts.show_subtitles /\ unit.scenes # <<>>)
  /\ mpc' = "watermark"
  /\ UNCHANGED <<entry, opts, csv_rows, row_num, product_videos, attempts,
                 unit, ret>>
  /\ UNCHANGED <<temp_image_dir, qvars, fvars>>

\* 919-926
RenderWatermark ==
  /\ entry = "render" /\ mpc = "watermark"
  /\ opts.watermark
  /\ \E o \in StageOutcomes :
       /\ unit' = [unit EXCEPT
                     !.stage_out["watermark"] = o,
                     !.video_for_mux = IF o = "exit0" THEN watermarked_mp4 ELSE @]
       /\ IF o = "timeout"
          THEN /\ mpc' = "done"
               /\ ret' = ServerError
          ELSE /\ mpc' = "mux"
               /\ UNCHANGED ret
  /\ UNCHANGED <<entry, opts, csv_rows, row_num, product_videos, attempts>>
  /\ UNCHANGED <<temp_image_dir, qvars, fvars>>

RenderWatermarkOff ==
  /\ entry = "render" /\ mpc = "watermark"
  /\ ~opts.watermark
  /\ mpc' = "mux"
  /\ UNCHANGED <<entry, opts, csv_rows, row_num, product_videos, attempts,
                 unit, ret>>
  /\ UNCHANGED <<temp_image_dir, qvars, fvars>>

\* 928-941
RenderMux ==
  /\ entry = "render" /\ mpc = "mux"
  /\ \E o \in StageOutcomes :
       /\ unit' = [unit EXCEPT !.stage_out["mux"] = o]
       /\ ret' = IF o = "exit0" THEN Response(200, "")
                 ELSE IF o = "nonzero" THEN Response(500, "Failed to mux audio")
                 ELSE ServerError
  /\ mpc' = "done"
  /\ UNCHANGED <<entry, opts, csv_rows, row_num, product_videos, attempts>>
  /\ UNCHANGED <<temp_image_dir, qvars, fvars>>

render_video_from_assets ==
  \/ RenderReject
  \/ RenderBadAudio
  \/ RenderAccept
  \/ RenderFrames
  \/ RenderPlaylist
  \/ RenderSlideshow
  \/ RenderSubtitles
  \/ RenderSubtitlesOff
  \/ RenderWatermark
  \/ RenderWatermarkOff
  \/ RenderMux

\* ------------------------------------------------------------------------
\* synthesize_speech (app.py 295-382)
\* ------------------------------------------------------------------------
synthesize_speech(api_key, env_key, provider) ==
  IF ~(api_key \/ env_key)
  THEN [success |-> FALSE, message |-> "GEMINI_API_KEY not set",
        requests |-> 0, wrote |-> FALSE]
  ELSE IF provider = "exception"
  THEN [success |-> FALSE, message |-> "Error synthesizing speech: e",
        requests |-> 1, wrote |-> FALSE]
  ELSE IF provider = "http_error"
  THEN [success |-> FALSE, message |-> "Gemini TTS API error: 400",
        requests |-> 1, wrote |-> FALSE]
  ELSE IF provider = "no_audio"
  THEN [success |-> FALSE, message |-> "No audio data found in response",
        requests |-> 1, wrote |-> FALSE]
  ELSE [success |-> TRUE, message |-> "Speech synthesized successfully",
        requests |-> 1, wrote |-> TRUE]

\* ------------------------------------------------------------------------
\* create_video_from_images (app.py 398-549), called with at least one
\* image; its scratch files live in temp_image_dir
\* ------------------------------------------------------------------------
\* 413-424: one synthesize_speech call per narration text
ImagesSynthesize ==
  /\ entry = "csv_legacy" /\ mpc = "texts"
  /\ unit.i < unit.fragments
  /\ \E p \in ProviderOutcomes :
       LET r == synthesize_speech(opts.api_key, opts.env_key, p)
       IN  unit' = [unit EXCEPT
                      !.synth = [called |-> TRUE, success |-> r.success,
                                 message |-> r.message],
                      !.tts_requests = @ + r.requests,
                      !.audio_written = r.wrote,
                      !.audio_files = @ + (IF r.success THEN 1 ELSE 0),
                      !.i = @ + 1]
  /\ UNCHANGED <<entry, mpc, opts, csv_rows, row_num, product_videos, attempts,
                 ret>>
  /\ UNCHANGED <<temp_image_dir, qvars, fvars>>

\* 426-455: the narration files are concatenated; a timeout leaves the
\* playlist, the audio list and the narration files in the directory
ImagesConcat ==
  /\ entry = "csv_legacy" /\ mpc = "texts"
  /\ unit.i = unit.fragments
  /\ unit.audio_files > 0
  /\ \E o \in StageOutcomes :
       LET u == [unit EXCEPT !.stage_out["concat"] = o]
       IN  IF o = "timeout"
           THEN /\ TimedOut(u)
                /\ temp_image_dir' = "leftover"
           ELSE /\ unit' = u
                /\ mpc' = "video"
                /\ UNCHANGED <<attempts, temp_image_dir>>
  /\ UNCHANGED <<entry, opts, csv_rows, row_num, product_videos, ret>>
  /\ UNCHANGED <<qvars, fvars>>

\* 497-498, 513-514: no narration file was made
ImagesSilent ==
  /\ entry = "csv_legacy" /\ mpc = "texts"
  /\ unit.i = unit.fragments
  /\ unit.audio_files = 0
  /\ mpc' = "video"
  /\ UNCHANGED <<entry, opts, csv_rows, row_num, product_videos, attempts,
                 unit, ret>>
  /\ UNCHANGED <<temp_image_dir, qvars, fvars>>

\* 457-540: the slideshow, with the combined narration when there is one;
\* the playlist is removed only when the invocation returns
ImagesVideo ==
  /\ entry = "csv_legacy" /\ mpc = "video"
  /\ \E o \in StageOutcomes :
       LET u == [unit EXCEPT !.stage_out["video"] = o]
       IN  IF o = "timeout"
           THEN /\ TimedOut(u)
                /\ temp_image_dir' = "leftover"
           ELSE /\ UnitReturnsWith(u, o = "exit0",
                      IF o = "exit0" THEN "Video created successfully"
                      ELSE "FFmpeg video creation failed")
                /\ UNCHANGED temp_image_dir
  /\ UNCHANGED <<entry, opts, csv_rows, row_num, product_videos, ret>>
  /\ UNCHANGED <<qvars, fvars>>

create_video_from_images ==
  \/ ImagesSynthesize
  \/ ImagesConcat
  \/ ImagesSilent
  \/ ImagesVideo

\* ------------------------------------------------------------------------
\* process_csv_and_create_video (app.py 551-701)
\* ------------------------------------------------------------------------
LegacyOptions ==
  {o \in OptionSets : o.show_subtitles /\ ~o.watermark
                        /\ o.duration_per_scene = 1}

LegacyReturn(success, videos, message) ==
  [returned |-> TRUE, success |-> success, videos |-> videos,
   message |-> message, code |-> 0]

\* 553-600: temp_image_dir is made, the file is opened and sniffed
LegacyStart ==
  /\ entry = "none"
  /\ entry' = "csv_legacy"
  /\ opts' \in LegacyOptions
  /\ csv_rows' \in 0..MaxRows
  /\ row_num' = 0
  /\ product_videos' = <<>>
  /\ temp_image_dir' = "empty"
  /\ \E readable \in BOOLEAN :
       IF readable
       THEN /\ mpc' = "row"
            /\ UNCHANGED ret
       ELSE /\ mpc' = "done"
            /\ ret' = LegacyReturn(FALSE, <<>>, "Error processing CSV file: e")
  /\ UNCHANGED <<attempts, unit>>
  /\ UNCHANGED <<qvars, fvars>>

\* 604-621: a row without a downloaded image is passed over
LegacySkipRow ==
  /\ entry = "csv_legacy" /\ mpc = "row"
  /\ row_num < csv_rows
  /\ row_num' = row_num + 1
  /\ UNCHANGED <<entry, mpc, opts, csv_rows, product_videos, attempts, unit,
                 ret>>
  /\ UNCHANGED <<temp_image_dir, qvars, fvars>>

\* 604-676, 400-411: the row has images; the narration texts always hold the
\* call to action; create_video_from_images is entered
LegacyRow ==
  /\ entry = "csv_legacy" /\ mpc = "row"
  /\ row_num < csv_rows
  /\ \E k \in 1..MaxImages, f \in 1..(MaxFragments + 1) :
       unit' = [NewUnit EXCEPT !.image_count = k, !.fragments = f]
  /\ mpc' = "texts"
  /\ UNCHANGED <<entry, opts, csv_rows, row_num, product_videos, attempts, ret>>
  /\ UNCHANGED <<temp_image_dir, qvars, fvars>>

\* 677-687: only a successful row is listed
LegacyAppend ==
  /\ entry = "csv_legacy" /\ mpc = "append"
  /\ product_videos' =
       IF unit.result.success
       THEN Append(product_videos, ManifestEntry(row_num, unit.result))
       ELSE product_videos
  /\ row_num' = row_num + 1
  /\ unit' = NewUnit
  /\ mpc' = "row"
  /\ UNCHANGED <<entry, opts, csv_rows, attempts, ret>>
  /\ UNCHANGED <<temp_image_dir, qvars, fvars>>

\* 689-701: os.rmdir raises on a directory that is not empty, which the
\* function's handler turns into a failure
LegacyResult(videos, dir) ==
  IF dir = "leftover"
  THEN LegacyReturn(FALSE, <<>>, "Error processing CSV file: e")
  ELSE IF videos # <<>>
  THEN LegacyReturn(TRUE, videos, "")
  ELSE LegacyReturn(FALSE, <<>>, "No valid image URLs found in CSV file")

LegacyFinish ==
  /\ entry = "csv_legacy" /\ mpc = "row"
  /\ row_num = csv_rows
  /\ ret' = LegacyResult(product_videos, temp_image_dir)
  /\ temp_image_dir' = IF temp_image_dir = "leftover" THEN "leftover"
                       ELSE "none"
  /\ mpc' = "done"
  /\ UNCHANGED <<entry, opts, csv_rows, row_num, product_videos, attempts, unit>>
  /\ UNCHANGED <<qvars, fvars>>

\* 604, 699-701: an error raised while the next row is read
LegacyReadError ==
  /\ entry = "csv_legacy" /\ mpc = "row"
  /\ row_num < csv_rows
  /\ ret' = LegacyReturn(FALSE, <<>>, "Error processing CSV file: e")
  /\ mpc' = "done"
  /\ UNCHANGED <<entry, opts, csv_rows, row_num, product_videos, attempts, unit>>
  /\ UNCHANGED <<temp_image_dir, qvars, fvars>>

process_csv_and_create_video ==
  \/ LegacyStart
  \/ LegacyReadError
  \/ LegacySkipRow
  \/ LegacyRow
  \/ create_video_from_images
  \/ LegacyAppend
  \/ LegacyFinish

MNext ==
  \/ process_csv_and_create_videos
  \/ render_video_from_assets
  \/ process_csv_and_create_video

\* The media entry points, one request at a time.
MSpec == Init /\ [][MNext]_vars

\* ------------------------------------------------------------------------
\* Properties of the conversion queue
\* ------------------------------------------------------------------------
StatusOf(j) == queue_status[j].status

ProcessingJobs == {j \in Jobs : StatusOf(j) = "processing"}

\* C1: in every reachable state the number of jobs whose status in the
\* status table is 'processing' is at most MAX_CONCURRENT_CONVERSIONS.
C1_ProcessingWithinCap ==
  Cardinality(ProcessingJobs) <= MAX_CONCURRENT_CONVERSIONS

\* The status changes the state machine queued -> processing ->
\* {completed, error} allows for an entry that already exists.
ForwardStep(old, new) ==
  \/ new = old
  \/ old = "absent"
  \/ old = "queued" /\ new = "processing"
  \/ old = "processing" /\ new \in {"completed", "error"}

\* C2: for every job id the status only moves forward along
\* queued -> processing -> completed | error; it never becomes 'queued'
\* again, and 'completed' and 'error' never change once set.
C2_StatusMonotonic ==
  [][\A j \in Jobs : ForwardStep(StatusOf(j), queue_status'[j].status)]_vars

\* A worker is between admission (the increment) and release (the decrement).
Admitted(w) == wpc[w] \in {"convert", "release"}

CounterMatchesAdmitted ==
  /\ active_conversions \in 0..MAX_CONCURRENT_CONVERSIONS
  /\ active_conversions = Cardinality({w \in Workers : Admitted(w)})

\* The step in which worker w leaves the conversion call.
SettledStep(w) ==
  (wpc[w] = "convert" /\ wpc'[w] = "release") =>
     LET e == queue_status'[witem[w]]
         r == wres'[w]
     IN  IF ~r.raised /\ r.success
         THEN e.status = "completed" /\ e.download_url = DownloadUrl(witem[w])
         ELSE e.status = "error" /\ e.message # ""

\* The step in which worker w leaves the finally block.
ReleasedStep(w) ==
  (wpc[w] = "release" /\ wpc'[w] # "release") =>
     active_conversions' = active_conversions - 1

\* C3: every admitted item is marked 'completed' with download_url
\* /api/download/<id> when the conversion succeeds and 'error' with a
\* message when it fails or raises; the counter is decremented exactly once
\* per admitted item, stays within 0..2 and counts exactly the workers
\* between admission and release (0 when there is none).
C3_AdmittedItemSettled ==
  /\ []CounterMatchesAdmitted
  /\ [][\A w \in Workers : SettledStep(w) /\ ReleasedStep(w)]_vars

\* C3 witness: with the cap reached, a worker whose conversion raised has
\* marked its job 'error' and is about to release its slot.
C3_Witness ==
  \E w \in Workers :
     /\ wpc[w] = "release"
     /\ wres[w].raised
     /\ StatusOf(witem[w]) = "error"
     /\ active_conversions = MAX_CONCURRENT_CONVERSIONS

\* The file ids a worker can see: in the queue or held by a worker.
VisibleToWorkers ==
  {conversion_queue[i] : i \in 1..Len(conversion_queue)}
    \cup {witem[w] : w \in {x \in Workers : witem[x] # NoItem}}

\* C4: an enqueued item has its Job entry, created in state 'queued', before
\* any worker can see it: the first status recorded for a job id is 'queued'.
C4_EnqueueCreatesQueuedJob ==
  /\ [](\A j \in VisibleToWorkers : StatusOf(j) # "absent")
  /\ [][\A j \in Jobs : (StatusOf(j) = "absent" /\ queue_status'[j].status # "absent")
                          => queue_status'[j].status = "queued"]_vars

\* ------------------------------------------------------------------------
\* Properties of the compositor chain
\* ------------------------------------------------------------------------
OptionalStages == {"subtitles", "watermark"}
FatalStages == {"slideshow", "mux"}

StageAfter(s) == IF s = "subtitles" THEN "watermark" ELSE "mux"

Compositing == entry \in {"csv_ffmpeg", "render"}
MuxInvoked == unit.stage_out["mux"] # "none"
JobReturned == unit.result.returned \/ (entry = "render" /\ ret.returned)
JobSucceeded ==
  IF entry = "render" THEN ret.returned /\ ret.success
  ELSE unit.result.returned /\ unit.result.success

\* The output of the last optional stage that exited with 0, or the slideshow.
LastGoodArtifact ==
  IF unit.stage_out["watermark"] = "exit0" THEN watermarked_mp4
  ELSE IF unit.stage_out["subtitles"] = "exit0" THEN subtitled_mp4
  ELSE slideshow_path

\* A step in which optional stage s exits with a non-zero code goes on to
\* the next stage of the chain and returns nothing.
ContinuesAfterNonZero(s) ==
  (unit.stage_out[s] = "none" /\ unit'.stage_out[s] = "nonzero")
    => /\ mpc' = StageAfter(s)
       /\ ~unit'.result.returned
       /\ ~ret'.returned

MuxTakesLastGood ==
  (Compositing /\ MuxInvoked)
    => /\ unit.video_for_mux = LastGoodArtifact
       /\ (JobReturned => (JobSucceeded <=> unit.stage_out["mux"] = "exit0"))

\* C5: a non-zero exit of the subtitle burn-in or of the watermark does not
\* abort the job: the chain goes on to the next stage, the video given to
\* the mux is the output of the last optional stage that exited with 0 (the
\* slideshow if none did), and the job succeeds when the mux succeeds.
C5_OptionalFailureFallsBack ==
  /\ []MuxTakesLastGood
  /\ [][\A s \in OptionalStages : ContinuesAfterNonZero(s)]_vars

C5_Witness ==
  /\ Compositing
  /\ unit.stage_out["subtitles"] = "exit0"
  /\ unit.stage_out["watermark"] = "nonzero"
  /\ unit.stage_out["mux"] = "exit0"
  /\ unit.video_for_mux = subtitled_mp4
  /\ JobSucceeded

\* C6: a timeout of a stage has the outcome of a non-zero exit of that
\* stage: in a fatal stage the job has failed, in an optional stage the
\* chain has gone on, so that a job that returned after an optional stage
\* timed out has invoked the mux.
C6_TimeoutLikeNonZero ==
  Compositing =>
    /\ \A s \in FatalStages :
         unit.stage_out[s] = "timeout" => (JobReturned /\ ~JobSucceeded)
    /\ \A s \in OptionalStages :
         (unit.stage_out[s] = "timeout" /\ JobReturned) => MuxInvoked

\* ------------------------------------------------------------------------
\* Properties of the CSV batches
\* ------------------------------------------------------------------------
BatchReturned == entry \in {"csv_ffmpeg", "csv_legacy"} /\ ret.returned

RowSucceeded == \E n \in 1..Len(attempts) : attempts[n].success

\* C7: when the batch of process_csv_and_create_videos returns, the creation
\* was attempted once for every data row, in row order, and the manifest has
\* exactly one entry per data row, an error entry exactly when that row's
\* creation failed.
C7_OneEntryPerRow ==
  (entry = "csv_ffmpeg" /\ ret.returned) =>
    /\ Len(attempts) = csv_rows
    /\ Len(ret.videos) = csv_rows
    /\ \A n \in 1..csv_rows :
         /\ attempts[n].row = n - 1
         /\ ret.videos[n].product_id = n - 1
         /\ ret.videos[n].error <=> ~attempts[n].success

\* C8: a batch returns success exactly when at least one row's creation
\* succeeded, and a failed batch lists no product video.
C8_SuccessIffSomeRow ==
  BatchReturned =>
    /\ ret.success <=> RowSucceeded
    /\ ~ret.success => \A n \in 1..Len(ret.videos) : ret.videos[n].error

\* ------------------------------------------------------------------------
\* Properties of the speech synthesis
\* ------------------------------------------------------------------------
NoCredential == ~(opts.api_key \/ opts.env_key)

NoStageFailed == \A s \in Stages : unit.stage_out[s] \in {"none", "exit0"}

\* C9: without a credential the narration is skipped and the unit is not
\* failed: a unit with at least one image whose tool invocations all exit
\* with 0 returns success.
C9_NoCredentialStillSucceeds ==
  ( /\ entry \in {"csv_ffmpeg", "csv_legacy"}
    /\ NoCredential
    /\ unit.image_count >= 1
    /\ unit.synth.called
    /\ unit.result.returned
    /\ NoStageFailed )
  => unit.result.success

\* C10: without a credential the synthesis returns the failure
\* 'GEMINI_API_KEY not set', has made no request and has written no audio.
C10_MissingKeyFailsFast ==
  (unit.synth.called /\ NoCredential) =>
    /\ ~unit.synth.success
    /\ unit.synth.message = "GEMINI_API_KEY not set"
    /\ unit.tts_requests = 0
    /\ ~unit.audio_written
    /\ unit.audio_files = 0

C10_Witness ==
  /\ entry = "csv_ffmpeg"
  /\ NoCredential
  /\ unit.synth.called
  /\ unit.result.returned

\* ------------------------------------------------------------------------
\* Properties of the narration requests
\* ------------------------------------------------------------------------
HasCredential == opts.api_key \/ opts.env_key

\* C11: with a credential, a product record whose narration was sent to the
\* speech provider has caused exactly one request when its unit returns,
\* whether the request succeeded or failed.
C11_OneRequestPerRecord ==
  ( /\ entry \in {"csv_ffmpeg", "csv_legacy"}
    /\ HasCredential
    /\ unit.synth.called
    /\ unit.result.returned )
  => unit.tts_requests = 1

\* ------------------------------------------------------------------------
\* synthesize_speech (app.py 295-382) and synthesize_speech_with_gemini
\* (csv_to_video_ffmpeg.py 17-99) against what requests.post can do. The two
\* functions have the same text but for the provider's model name.
\* ------------------------------------------------------------------------
StatusCodes == {200, 400, 403, 429, 500}

\* f"{response.status_code}"
StatusText ==
  [c \in StatusCodes |->
     IF c = 200 THEN "200" ELSE IF c = 400 THEN "400"
     ELSE IF c = 403 THEN "403" ELSE IF c = 429 THEN "429" ELSE "500"]

\* The parts of the candidates of a 200 answer, in the order they are
\* scanned: text, inlineData of another type, inlineData audio/* with data,
\* inlineData audio/* whose data is empty.
PartKinds == {"text", "inline_image", "inline_audio", "inline_audio_empty"}
PartLists == UNION {[1..n -> PartKinds] : n \in 0..MaxParts}
NoBody == [parsed |-> TRUE, parts |-> <<>>]
Bodies ==
  {[parsed |-> FALSE, parts |-> <<>>]}
    \cup {[parsed |-> TRUE, parts |-> p] : p \in PartLists}

\* What requests.post does: it raises, or answers with a status; the JSON of
\* an error answer has error.message, lacks it or cannot be parsed; the file
\* at output_path can be opened for writing or not.
TtsResponses ==
  {r \in [post : {"raises", "answers"}, status : StatusCodes,
          error_body : {"message", "no_message", "unparsable"},
          body : Bodies, writable : BOOLEAN] :
     /\ r.post = "raises" =>
          r.status = 200 /\ r.error_body = "message" /\ r.body = NoBody
            /\ r.writable
     /\ r.status # 200 => r.body = NoBody /\ r.writable
     /\ r.status = 200 => r.error_body = "message"}

\* 64-72 (app.py 338-346): the answer to a status other than 200
ErrorMessage(r) ==
  IF r.error_body = "message"
  THEN "Gemini TTS API error: " \o StatusText[r.status] \o " - API key not valid"
  ELSE IF r.error_body = "no_message"
  THEN "Gemini TTS API error: " \o StatusText[r.status] \o " - Unknown error"
  ELSE "Gemini TTS API error: " \o StatusText[r.status]

\* 78-87 (app.py 352-361): audio_data after the scan, which stops at the
\* first audio part whose data is not empty
HasAudioData(parts) == \E n \in 1..Len(parts) : parts[n] = "inline_audio"

TtsReturn(success, message, requests, wrote) ==
  [raised |-> FALSE, success |-> success, message |-> message,
   requests |-> requests, wrote |-> wrote]

TtsRaise(requests) ==
  [raised |-> TRUE, success |-> FALSE, message |-> "", requests |-> requests,
   wrote |-> FALSE]

\* 20-95 (app.py 298-378): the body of the try statement
tts_try(api_key, env_key, r) ==
  IF ~(api_key \/ env_key) THEN TtsReturn(FALSE, "GEMINI_API_KEY not set", 0, FALSE)
  ELSE IF r.post = "raises" THEN TtsRaise(1)
  ELSE IF r.status # 200 THEN TtsReturn(FALSE, ErrorMessage(r), 1, FALSE)
  ELSE IF ~r.body.parsed THEN TtsRaise(1)
  ELSE IF ~HasAudioData(r.body.parts)
  THEN TtsReturn(FALSE, "No audio data found in response", 1, FALSE)
  ELSE IF ~r.writable THEN TtsRaise(1)
  ELSE TtsReturn(TRUE, "Speech synthesized successfully", 1, TRUE)

\* The handler left out: the exception goes on to the caller.
tts_except_Missing(t) == t

\* 97-99 (app.py 380-382): except Exception
tts_except(t) ==
  IF t.raised
  THEN TtsReturn(FALSE, "Error synthesizing speech: e", t.requests, t.wrote)
  ELSE t

TtsFunctions == {"synthesize_speech", "synthesize_speech_with_gemini"}

TtsArgs ==
  [fn : TtsFunctions, api_key : BOOLEAN, env_key : BOOLEAN,
   response : TtsResponses]

TtsInit ==
  /\ QInit /\ MInit
  /\ fpc = "call"
  /\ fargs \in TtsArgs
  /\ flocals = <<>>

CallSynthesizeSpeech ==
  /\ fpc = "call" /\ fargs.fn = "synthesize_speech"
  /\ flocals' = tts_except(tts_try(fargs.api_key, fargs.env_key, fargs.response))
  /\ fpc' = "returned"
  /\ UNCHANGED <<fargs, qvars, mvars>>

CallSynthesizeSpeechWithGemini ==
  /\ fpc = "call" /\ fargs.fn = "synthesize_speech_with_gemini"
  /\ flocals' = tts_except(tts_try(fargs.api_key, fargs.env_key, fargs.response))
  /\ fpc' = "returned"
  /\ UNCHANGED <<fargs, qvars, mvars>>

TtsNext ==
  \/ CallSynthesizeSpeech
  \/ CallSynthesizeSpeechWithGemini

\* One call of a synthesis function on any credential and provider answer.
TtsSpec == TtsInit /\ [][TtsNext]_vars

\* s contains t
Contains(s, t) ==
  \E n \in 1..(Len(s) - Len(t) + 1) : SubSeq(s, n, n + Len(t) - 1) = t

TtsReturned == fpc = "returned" /\ fargs.fn \in TtsFunctions
TtsAnswered ==
  (fargs.api_key \/ fargs.env_key) /\ fargs.response.post = "answers"

\* C12: a synthesis call never raises: it returns a (success, message) pair.
\* For an answer with a status other than 200 success is False, the message
\* contains the status code and no audio file is written; for a 200 answer
\* whose parts hold no audio the message is 'No audio data found in
\* response'.
C12_SynthesisReturnsPair ==
  TtsReturned =>
    /\ ~flocals.raised
    /\ flocals.success \in BOOLEAN
    /\ (TtsAnswered /\ fargs.response.status # 200) =>
         /\ ~flocals.success
         /\ Contains(flocals.message, StatusText[fargs.response.status])
         /\ ~flocals.wrote
    /\ ( /\ TtsAnswered
         /\ fargs.response.status = 200
         /\ fargs.response.body.parsed
         /\ \A n \in 1..Len(fargs.response.body.parts) :
              fargs.response.body.parts[n] \notin {"inline_audio", "inline_audio_empty"} ) =>
         /\ ~flocals.success
         /\ flocals.message = "No audio data found in response"
         /\ ~flocals.wrote

C12_Witness ==
  /\ TtsReturned
  /\ TtsAnswered
  /\ fargs.response.status = 400
  /\ flocals.message = "Gemini TTS API error: 400 - API key not valid"

\* ------------------------------------------------------------------------
\* The scene timing of create_video_from_product_data
\* (csv_to_video_ffmpeg.py 304-352) for the duration_per_scene handed over by
\* csv_to_video (app.py 1142-1144). Times are exact: a duration is a
\* fraction num/den of a second.
\* ------------------------------------------------------------------------
Frac(n, d) == [num |-> n, den |-> d]
FracEq(a, b) == a.num * b.den = b.num * a.den
FracAdd(a, b) ==
  IF a.den = b.den THEN Frac(a.num + b.num, a.den)
  ELSE Frac(a.num * b.den + b.num * a.den, a.den * b.den)

\* app.py 1142-1144: duration_per_scene outside 1..30 becomes 5.0
ClampPeriod(p) ==
  IF p < MIN_DURATION_PER_SCENE \/ p > MAX_DURATION_PER_SCENE
  THEN DEFAULT_DURATION_PER_SCENE
  ELSE p

\* The values of the form field: around both ends of the accepted range.
RequestedPeriods ==
  (0..TimerMaxPeriod)
    \cup {MAX_DURATION_PER_SCENE, MAX_DURATION_PER_SCENE + 1}

TimerArgs ==
  [audio_duration : 0..TimerMaxAudio, requested : RequestedPeriods,
   image_count : 1..TimerMaxImages]

TimerInit ==
  /\ QInit /\ MInit
  /\ fpc = "timer"
  /\ fargs \in TimerArgs
  /\ flocals = <<>>

\* The nominal duration in place of the stretched one.
ActualDuration_Nominal(audio_duration, duration_per_scene, num_scenes) ==
  Frac(duration_per_scene, 1)

\* 306: actual_duration_per_scene = audio_duration / num_scenes
ActualDuration(audio_duration, duration_per_scene, num_scenes) ==
  Frac(audio_duration, num_scenes)

\* Scene i shown with its own image whatever the number of images.
ImageIndex_Own(i, image_count) == i

\* 311: image_index = min(i, len(image_paths) - 1)
ImageIndex(i, image_count) == Min(i, image_count - 1)

\* 304-306
TimerCompute ==
  /\ fpc = "timer"
  /\ LET p == ClampPeriod(fargs.requested)
         n == NumScenes(fargs.audio_duration, p)
     IN  flocals' = [duration_per_scene |-> p,
                     num_scenes |-> n,
                     actual_duration_per_scene |->
                       ActualDuration(fargs.audio_duration, p, n),
                     i |-> 0, scene_files |-> <<>>, file_list |-> <<>>]
  /\ fpc' = "scenes"
  /\ UNCHANGED <<fargs, qvars, mvars>>

\* 308-341: scene i, made from image image_index
TimerScene ==
  /\ fpc = "scenes"
  /\ flocals.i < flocals.num_scenes
  /\ flocals' = [flocals EXCEPT
       !.scene_files = Append(@, [scene |-> flocals.i,
                                  image_index |-> ImageIndex(flocals.i,
                                                     fargs.image_count)]),
       !.i = @ + 1]
  /\ UNCHANGED <<fpc, fargs, qvars, mvars>>

\* 348-352: one file and one duration directive per scene, then the last
\* file once more without a duration
TimerPlaylist ==
  /\ fpc = "scenes"
  /\ flocals.i = flocals.num_scenes
  /\ flocals' = [flocals EXCEPT !.file_list =
       [n \in 1..Len(flocals.scene_files) |->
          [file |-> flocals.scene_files[n].scene, directive |-> TRUE,
           duration |-> flocals.actual_duration_per_scene]]
       \o <<[file |-> flocals.scene_files[Len(flocals.scene_files)].scene,
             directive |-> FALSE, duration |-> Frac(0, 1)]>>]
  /\ fpc' = "playlist"
  /\ UNCHANGED <<fargs, qvars, mvars>>

TimerNext ==
  \/ TimerCompute
  \/ TimerScene
  \/ TimerPlaylist

\* The scene timing on any audio duration, requested period and image count.
TimerSpec == TimerInit /\ [][TimerNext]_vars

\* ------------------------------------------------------------------------
\* Properties of the scene timing
\* ------------------------------------------------------------------------
Directives == {n \in 1..Len(flocals.file_list) : flocals.file_list[n].directive}

RECURSIVE PlaylistTime(_, _)
\* The time the first n entries of the playlist take.
PlaylistTime(list, n) ==
  IF n = 0 THEN Frac(0, 1)
  ELSE FracAdd(PlaylistTime(list, n - 1), list[n].duration)

AudioTime == Frac(fargs.audio_duration, 1)

\* C13: the playlist holds exactly num_scenes duration directives, one per
\* scene in scene order, each of audio_duration / num_scenes; the scenes
\* therefore start at 0, follow one another without gap or overlap (scene n
\* starts when the n-1 before it have played) and take audio_duration in all.
C13_ScenesSumToAudio ==
  fpc = "playlist" =>
    /\ Cardinality(Directives) = flocals.num_scenes
    /\ Directives = 1..flocals.num_scenes
    /\ \A n \in Directives :
         /\ flocals.file_list[n].file = n - 1
         /\ FracEq(flocals.file_list[n].duration,
                   Frac(fargs.audio_duration, flocals.num_scenes))
         /\ FracEq(PlaylistTime(flocals.file_list, n - 1),
                   Frac((n - 1) * fargs.audio_duration, flocals.num_scenes))
    /\ FracEq(PlaylistTime(flocals.file_list, Len(flocals.file_list)), AudioTime)

C13_Witness ==
  /\ fpc = "playlist"
  /\ fargs.audio_duration = 10
  /\ flocals.duration_per_scene = 3
  /\ flocals.num_scenes = 3
  /\ Len(flocals.file_list) = 4

\* C14: num_scenes is max(1, floor(audio_duration / nominal)) for the nominal
\* duration in 1..30 the request ends up with, so it is at least 1, and the
\* duration of a scene is audio_duration / num_scenes; audio 10 and nominal 4
\* give 2 scenes of 5.
C14_SceneCount ==
  fpc \in {"scenes", "playlist"} =>
    LET d == fargs.audio_duration
        p == flocals.duration_per_scene
        n == flocals.num_scenes
    IN  /\ p \in MIN_DURATION_PER_SCENE..MAX_DURATION_PER_SCENE
        /\ n >= 1
        /\ d >= p => (n * p <= d /\ d < (n + 1) * p)
        /\ d < p => n = 1
        /\ FracEq(flocals.actual_duration_per_scene, Frac(d, n))
        /\ (d = 10 /\ p = 4) =>
             (n = 2 /\ FracEq(flocals.actual_duration_per_scene, Frac(5, 1)))

C14_Witness ==
  /\ fpc = "playlist"
  /\ fargs.audio_duration = 10
  /\ fargs.requested = 4
  /\ flocals.num_scenes = 2
  /\ flocals.actual_duration_per_scene = Frac(10, 2)

\* C15: the image of scene i is image min(i, image_count - 1): always one
\* of the images, and the last one for every scene from image_count on.
C15_ImageIndexInRange ==
  fpc \in {"scenes", "playlist"} =>
    \A n \in 1..Len(flocals.scene_files) :
      LET s == flocals.scene_files[n]
      IN  /\ s.scene = n - 1
          /\ s.image_index \in 0..(fargs.image_count - 1)
          /\ s.scene < fargs.image_count => s.image_index = s.scene
          /\ s.scene >= fargs.image_count =>
               s.image_index = fargs.image_count - 1

C15_Witness ==
  /\ fpc = "playlist"
  /\ fargs.image_count = 2
  /\ flocals.num_scenes = 4
  /\ flocals.scene_files[3].image_index = 1
  /\ flocals.scene_files[4].image_index = 1

\* ------------------------------------------------------------------------
\* The narration text of create_video_from_product_data
\* (csv_to_video_ffmpeg.py 237-277) and create_srt_file with format_time
\* (461-496). A string is a sequence of tokens: "w" a run of visible
\* characters, " " a blank, "P" the two line feeds '\n\n'.
\* ------------------------------------------------------------------------
Blank(s) == \A n \in 1..Len(s) : s[n] = " "

RECURSIVE LStrip(_)
LStrip(s) == IF s # <<>> /\ Head(s) = " " THEN LStrip(Tail(s)) ELSE s

RECURSIVE RStrip(_)
RStrip(s) ==
  IF s # <<>> /\ s[Len(s)] = " " THEN RStrip(SubSeq(s, 1, Len(s) - 1)) ELSE s

\* str.strip()
Strip(s) == RStrip(LStrip(s))

RECURSIVE Join(_, _)
\* sep.join(parts)
Join(sep, parts) ==
  IF parts = <<>> THEN <<>>
  ELSE IF Len(parts) = 1 THEN parts[1]
  ELSE parts[1] \o sep \o Join(sep, Tail(parts))

RECURSIVE Split(_)
\* str.split('\n\n')
Split(s) ==
  IF \A n \in 1..Len(s) : s[n] # "P" THEN <<s>>
  ELSE LET k == CHOOSE n \in 1..Len(s) :
                  s[n] = "P" /\ \A m \in 1..(n - 1) : s[m] # "P"
       IN  <<SubSeq(s, 1, k - 1)>> \o Split(SubSeq(s, k + 1, Len(s)))

\* 240-241, 244-245, 267-268: the parts made of the title, the brand and the
\* outro text of the request (a record without prices and description)
NarrationParts(title, brand, outro_text) ==
  (IF title # <<>> THEN <<(<<"w", " ">> \o title)>> ELSE <<>>)
    \o (IF brand # <<>> THEN <<(<<"w", " ">> \o brand)>> ELSE <<>>)
    \o (IF outro_text # <<>> THEN <<outro_text>> ELSE <<>>)

\* 271: full_narration = " \n\n ".join(narration_parts)
FullNarration(parts) == Join(<<" ", "P", " ">>, parts)

\* 490-496: HH:MM:SS,mmm of a time given as a fraction of a second
format_time(seconds) ==
  LET whole == seconds.num \div seconds.den
      ms == (seconds.num * 1000) \div seconds.den
  IN  [hours |-> whole \div 3600,
       minutes |-> (whole % 3600) \div 60,
       secs |-> whole % 60,
       millis |-> ms % 1000]

TitleValues == {<<>>, <<"w">>, <<"w", "P", "w">>, <<"w", "P", "P", "w">>}
BrandValues == {<<>>, <<"w">>}
OutroValues == {<<>>, <<"w">>, <<" ">>}

SrtArgs ==
  [title : TitleValues, brand : BrandValues, outro_text : OutroValues,
   audio_duration : 0..SrtMaxAudio]

SrtInit ==
  /\ QInit /\ MInit
  /\ fpc = "narration"
  /\ fargs \in SrtArgs
  /\ flocals = <<>>

\* 237-277: the narration; an empty one ends the unit
SrtNarration ==
  /\ fpc = "narration"
  /\ LET parts == NarrationParts(fargs.title, fargs.brand, fargs.outro_text)
     IN  /\ flocals' = [narration_parts |-> parts,
                        full_narration |-> FullNarration(parts),
                        sentences |-> <<>>, i |-> 0, cues |-> <<>>]
         /\ fpc' = IF Strip(FullNarration(parts)) = <<>> THEN "no_narration"
                   ELSE "create_srt_file"
  /\ UNCHANGED <<fargs, qvars, mvars>>

\* 464-470: sentences = text.split('\n\n')
SrtSplit ==
  /\ fpc = "create_srt_file"
  /\ flocals' = [flocals EXCEPT !.sentences = Split(flocals.full_narration)]
  /\ fpc' = "sentences"
  /\ UNCHANGED <<fargs, qvars, mvars>>

\* 470: sentence_duration = total_duration / len(sentences); 477-478
CueTime(n) == Frac(n * fargs.audio_duration, Len(flocals.sentences))

\* 473-475: a sentence that is blank is passed over
SrtSkip ==
  /\ fpc = "sentences"
  /\ flocals.i < Len(flocals.sentences)
  /\ Strip(flocals.sentences[flocals.i + 1]) = <<>>
  /\ flocals' = [flocals EXCEPT !.i = @ + 1]
  /\ UNCHANGED <<fpc, fargs, qvars, mvars>>

\* 477-486: the cue of sentence i, numbered i + 1
SrtCue ==
  /\ fpc = "sentences"
  /\ flocals.i < Len(flocals.sentences)
  /\ Strip(flocals.sentences[flocals.i + 1]) # <<>>
  /\ flocals' = [flocals EXCEPT
       !.cues = Append(@, [index |-> flocals.i + 1,
                           start |-> format_time(CueTime(flocals.i)),
                           end |-> format_time(CueTime(flocals.i + 1)),
                           text |-> Strip(flocals.sentences[flocals.i + 1])]),
       !.i = @ + 1]
  /\ UNCHANGED <<fpc, fargs, qvars, mvars>>

SrtClose ==
  /\ fpc = "sentences"
  /\ flocals.i = Len(flocals.sentences)
  /\ fpc' = "written"
  /\ UNCHANGED <<fargs, flocals, qvars, mvars>>

SrtNext ==
  \/ SrtNarration
  \/ SrtSplit
  \/ SrtSkip
  \/ SrtCue
  \/ SrtClose

\* The subtitle file of one record.
SrtSpec == SrtInit /\ [][SrtNext]_vars

\* ------------------------------------------------------------------------
\* Properties of the subtitle file
\* ------------------------------------------------------------------------
NonEmptyFragments ==
  {n \in 1..Len(flocals.narration_parts) : ~Blank(flocals.narration_parts[n])}

Millis(t) == ((t.hours * 60 + t.minutes) * 60 + t.secs) * 1000 + t.millis

\* C16: the subtitle file has one cue per non-empty narration fragment, and
\* the cue windows are in order, start at 0, each start where the one before
\* ends, and end at the audio duration.
C16_CuesSpanAudio ==
  fpc = "written" =>
    LET cues == flocals.cues
    IN  /\ Len(cues) = Cardinality(NonEmptyFragments)
        /\ \A n \in 1..Len(cues) : Millis(cues[n].start) <= Millis(cues[n].end)
        /\ \A n \in 1..(Len(cues) - 1) : cues[n + 1].start = cues[n].end
        /\ cues # <<>> =>
             /\ cues[1].start = format_time(Frac(0, 1))
             /\ cues[Len(cues)].end = format_time(Frac(fargs.audio_duration, 1))

\* ------------------------------------------------------------------------
\* Column resolution of a CSV file with a header row: the product_data of
\* process_csv_and_create_videos read by create_video_from_product_data
\* (csv_to_video_ffmpeg.py 549-577, 204-235) and the columns of
\* process_csv_and_create_video (app.py 574-618). Every image is taken to
\* download.
\* ------------------------------------------------------------------------
HeaderNames ==
  {"Product Title", "Brand", "Image URL 1", "Main Image URL",
   "Additional Image 1", "Product Description"}

\* str.lower()
Lower ==
  [h \in HeaderNames |->
     IF h = "Product Title" THEN "product title"
     ELSE IF h = "Brand" THEN "brand"
     ELSE IF h = "Image URL 1" THEN "image url 1"
     ELSE IF h = "Main Image URL" THEN "main image url"
     ELSE IF h = "Additional Image 1" THEN "additional image 1"
     ELSE "product description"]

CellValues == {"Widget", "Acme", "http://x/img.jpg"}

\* str.startswith
StartsWith(s, t) == Len(s) >= Len(t) /\ SubSeq(s, 1, Len(t)) = t

ColumnArgs ==
  [fn : {"process_csv_and_create_videos", "process_csv_and_create_video"},
   headers : [1..MaxColumns -> HeaderNames],
   row : [1..MaxColumns -> CellValues]]

ColumnInit ==
  /\ QInit /\ MInit
  /\ fpc = "columns"
  /\ fargs \in ColumnArgs
  /\ flocals = <<>>

\* 553-558: product_data[header] = row[i], a later column of the same name
\* replacing an earlier one; dict.get(key, "")
ProductData(headers, row, key) ==
  LET cols == {n \in 1..Len(headers) : headers[n] = key}
  IN  IF cols = {} THEN ""
      ELSE row[CHOOSE n \in cols : \A m \in cols : m <= n]

\* 214-220: the keys image URLs are read from
ImageKeys ==
  <<"Main Image URL", "Additional Image 1", "Additional Image 2",
    "Additional Image 3", "Additional Image 4", "Additional Image 5">>

\* 204-232: title, brand and the images of the record
ResolveProductData ==
  /\ fpc = "columns" /\ fargs.fn = "process_csv_and_create_videos"
  /\ flocals' =
       [title |-> ProductData(fargs.headers, fargs.row, "Product Title"),
        brand |-> ProductData(fargs.headers, fargs.row, "Brand"),
        images |->
          SelectSeq([k \in 1..Len(ImageKeys) |->
                       ProductData(fargs.headers, fargs.row, ImageKeys[k])],
                    LAMBDA v : v # "" /\ StartsWith(v, "http"))]
  /\ fpc' = "record"
  /\ UNCHANGED <<fargs, qvars, mvars>>

\* app.py 581-592: the class of a header; the first test that matches wins
ColumnClass(header) ==
  LET header_lower == Lower[header]
  IN  IF Contains(header_lower, "image") \/ Contains(header_lower, "url")
      THEN "image"
      ELSE IF Contains(header_lower, "product title")
                \/ Contains(header_lower, "product_title")
      THEN "product_title"
      ELSE IF Contains(header_lower, "product description")
                \/ Contains(header_lower, "product_description")
      THEN "product_description"
      ELSE IF Contains(header_lower, "brand") THEN "brand"
      ELSE IF Contains(header_lower, "price")
                /\ ~Contains(header_lower, "currency")
      THEN "price"
      ELSE "other"

\* app.py 581-592, 624-637: the cell of the last column of a class, "" when
\* there is none
ColumnValue(headers, row, class) ==
  LET cols == {n \in 1..Len(headers) : ColumnClass(headers[n]) = class}
  IN  IF cols = {} THEN ""
      ELSE row[CHOOSE n \in cols : \A m \in cols : m <= n]

\* app.py 604-618: the image columns in column order, their http values
ResolveColumns ==
  /\ fpc = "columns" /\ fargs.fn = "process_csv_and_create_video"
  /\ flocals' =
       [title |-> ColumnValue(fargs.headers, fargs.row, "product_title"),
        brand |-> ColumnValue(fargs.headers, fargs.row, "brand"),
        images |->
          SelectSeq(
            SelectSeq([n \in 1..Len(fargs.headers) |->
                         IF ColumnClass(fargs.headers[n]) = "image"
                         THEN fargs.row[n] ELSE ""],
                      LAMBDA v : v # ""),
            LAMBDA v : StartsWith(v, "http"))]
  /\ fpc' = "record"
  /\ UNCHANGED <<fargs, qvars, mvars>>

ColumnNext ==
  \/ ResolveProductData
  \/ ResolveColumns

\* The record made of one data row under a header row.
ColumnSpec == ColumnInit /\ [][ColumnNext]_vars

\* ------------------------------------------------------------------------
\* Properties of the column resolution
\* ------------------------------------------------------------------------
ExampleHeaders == <<"Product Title", "Brand", "Image URL 1">>
ExampleRow == <<"Widget", "Acme", "http://x/img.jpg">>

IsImageHeader(h) == Contains(Lower[h], "image") \/ Contains(Lower[h], "url")

\* C17: the header 'Product Title,Brand,Image URL 1' with the row
\* 'Widget,Acme,http://x/img.jpg' gives the record with title 'Widget',
\* brand 'Acme' and the one image http://x/img.jpg; in general the http value
\* of a column whose header contains 'image' or 'url' is an image of the
\* record.
C17_HeaderDrivenColumns ==
  fpc = "record" =>
    /\ (SubSeq(fargs.headers, 1, 3) = ExampleHeaders
          /\ SubSeq(fargs.row, 1, 3) = ExampleRow
          /\ \A n \in 4..MaxColumns : ~IsImageHeader(fargs.headers[n])) =>
         /\ flocals.title = "Widget"
         /\ flocals.brand = "Acme"
         /\ flocals.images = <<"http://x/img.jpg">>
    /\ \A n \in 1..MaxColumns :
         (IsImageHeader(fargs.headers[n]) /\ StartsWith(fargs.row[n], "http")) =>
           \E k \in 1..Len(flocals.images) : flocals.images[k] = fargs.row[n]

\* ------------------------------------------------------------------------
\* Properties of a record without narration
\* ------------------------------------------------------------------------
NoMediaStage == \A s \in Stages : unit.stage_out[s] = "none"

FailedForNarration ==
  /\ ~unit.result.success
  /\ unit.result.message = "No narration content generated"
  /\ ~unit.synth.called
  /\ unit.tts_requests = 0
  /\ NoMediaStage

\* A record of the batch that returned without narration fragments.
ZeroFragmentsReturned ==
  entry = "csv_ffmpeg" /\ unit.result.returned /\ unit.fragments = 0

BatchGoesOn ==
  (ZeroFragmentsReturned /\ mpc = "append") =>
    /\ mpc' = "row"
    /\ row_num' = row_num + 1
    /\ ~ret'.returned
    /\ product_videos' = Append(product_videos,
                                [product_id |-> row_num, error |-> TRUE,
                                 message |-> unit.result.message])

HoldsSlotFor(w, j) == witem[w] = j /\ Admitted(w)

\* C19: a job whose status is 'processing' is held by a worker that has
\* incremented active_conversions and not yet released it; in particular an
\* item put back on the queue at the cap still has status 'queued'.
C19_ProcessingHoldsSlot ==
  \A j \in Jobs :
    StatusOf(j) = "processing" => \E w \in Workers : HoldsSlotFor(w, j)

\* The step in which worker w leaves the admission test with the counter at
\* the cap: the item goes to the tail of the queue, nothing is converted,
\* the counter and the statuses stay as they are.
RequeuedAtCap(w) ==
  ( /\ wpc[w] = "check"
    /\ wpc'[w] # "check"
    /\ active_conversions >= MAX_CONCURRENT_CONVERSIONS )
  => /\ wpc'[w] = "sleep"
     /\ conversion_queue' = Append(conversion_queue, witem[w])
     /\ active_conversions' = active_conversions
     /\ queue_status' = queue_status

\* After the sleep the worker takes the head of the queue, not its item.
NotConvertedThisIteration(w) ==
  wpc[w] = "sleep" => wpc'[w] \in {"sleep", "get"}

InQueue(j) == \E n \in 1..Len(conversion_queue) : conversion_queue[n] = j

Enqueued(j) == hitem = j \/ StatusOf(j) # "absent"

HeldBy(w, j) == witem[w] = j

\* Nothing is left to do: the handler is between files, the queue is empty
\* and every worker is blocked in conversion_queue.get().
RunCompleted ==
  /\ hpc = "idle"
  /\ conversion_queue = <<>>
  /\ \A w \in Workers : wpc[w] = "get"

\* The conversion of j is over: the call was made and the worker that made
\* it has left the finally block.
ConversionOver(j) ==
  /\ convert_calls[j] > 0
  /\ ~ \E w \in Workers : Admitted(w) /\ HeldBy(w, j)

\* C21: convert_webm_to_mp4 runs exactly once for every enqueued item,
\* across all workers and requeues: never twice, never zero times in a
\* completed run; after its conversion the item is in no queue and held by
\* no worker.
C21_ConvertedExactlyOnce ==
  /\ \A j \in Jobs : convert_calls[j] <= 1
  /\ \A j \in Jobs : convert_calls[j] > 0 => Enqueued(j)
  /\ RunCompleted => \A j \in Jobs : Enqueued(j) => convert_calls[j] = 1
  /\ \A j \in Jobs :
       ConversionOver(j) => ~InQueue(j) /\ \A w \in Workers : ~HeldBy(w, j)

\* C21 witness: a completed run in which every file id was enqueued and
\* converted.
C21_Witness ==
  /\ RunCompleted
  /\ \A j \in Jobs : Enqueued(j) /\ convert_calls[j] = 1

\* ------------------------------------------------------------------------
\* The conversion queue with update_queue_status (app.py 43-62) taken apart:
\* entering `with queue_lock`, the body, leaving the with block
\* ------------------------------------------------------------------------
\* The thread serving the bulk-convert request.
HandlerThread == NumWorkers + 1

\* The with statement entered without taking the lock.
AcquireQueueLock_Skipped(t) == UNCHANGED queue_lock

\* 45: with queue_lock: (blocks while another thread holds it)
AcquireQueueLock(t) ==
  /\ queue_lock = NoThread
  /\ queue_lock' = t

\* 45-62: the with block is left
ReleaseQueueLock(t) == queue_lock' = NoThread

\* 1086 -> 45: the handler enters update_queue_status(file_id, 'queued', ...)
HandlerLock ==
  /\ hpc = "init"
  /\ AcquireQueueLock(HandlerThread)
  /\ hpc' = "init_locked"
  /\ UNCHANGED <<conversion_queue, queue_status, active_conversions,
                 active_conversions_lock, convert_calls, wpc, witem, wres,
                 hitem, uploaded>>
  /\ UNCHANGED <<mvars, fvars>>

\* 46-62: the entry is created or updated
HandlerWrite ==
  /\ hpc = "init_locked"
  /\ queue_status' = update_queue_status(queue_status, hitem, "queued",
                        "Waiting in queue...", NoUrl, "original_filename")
  /\ hpc' = "init_written"
  /\ UNCHANGED <<conversion_queue, active_conversions,
                 active_conversions_lock, queue_lock, convert_calls, wpc,
                 witem, wres, hitem, uploaded>>
  /\ UNCHANGED <<mvars, fvars>>

\* 62 -> 1086: the lock is released, the handler goes on with the next file
HandlerUnlock ==
  /\ hpc = "init_written"
  /\ ReleaseQueueLock(HandlerThread)
  /\ hpc' = "idle"
  /\ hitem' = NoItem
  /\ UNCHANGED <<conversion_queue, queue_status, active_conversions,
                 active_conversions_lock, convert_calls, wpc, witem, wres,
                 uploaded>>
  /\ UNCHANGED <<mvars, fvars>>

\* 81 -> 45: the worker enters update_queue_status(file_id, 'processing', ...)
MarkLock(w) ==
  /\ wpc[w] = "mark"
  /\ AcquireQueueLock(w)
  /\ wpc' = [wpc EXCEPT ![w] = "mark_locked"]
  /\ UNCHANGED <<conversion_queue, queue_status, active_conversions,
                 active_conversions_lock, convert_calls, witem, wres,
                 hpc, hitem, uploaded>>
  /\ UNCHANGED <<mvars, fvars>>

MarkWrite(w) ==
  /\ wpc[w] = "mark_locked"
  /\ queue_status' = update_queue_status(queue_status, witem[w], "processing",
                        "Conversion in progress...", NoUrl, None)
  /\ wpc' = [wpc EXCEPT ![w] = "mark_written"]
  /\ UNCHANGED <<conversion_queue, active_conversions,
                 active_conversions_lock, queue_lock, convert_calls,
                 witem, wres, hpc, hitem, uploaded>>
  /\ UNCHANGED <<mvars, fvars>>

MarkUnlock(w) ==
  /\ wpc[w] = "mark_written"
  /\ ReleaseQueueLock(w)
  /\ wpc' = [wpc EXCEPT ![w] = "check"]
  /\ UNCHANGED <<conversion_queue, queue_status, active_conversions,
                 active_conversions_lock, convert_calls, witem, wres,
                 hpc, hitem, uploaded>>
  /\ UNCHANGED <<mvars, fvars>>

\* 94, 107: convert_webm_to_mp4 returns its pair or raises
ConvertReturn(w) ==
  /\ wpc[w] = "convert"
  /\ \E r \in ConversionResults : wres' = [wres EXCEPT ![w] = r]
  /\ wpc' = [wpc EXCEPT ![w] = "settle"]
  /\ UNCHANGED <<conversion_queue, queue_status, active_conversions,
                 active_conversions_lock, queue_lock, convert_calls,
                 witem, hpc, hitem, uploaded>>
  /\ UNCHANGED <<mvars, fvars>>

\* 97, 105, 109 -> 45: the worker enters the update_queue_status call that
\* writes the terminal status
SettleLock(w) ==
  /\ wpc[w] = "settle"
  /\ AcquireQueueLock(w)
  /\ wpc' = [wpc EXCEPT ![w] = "settle_locked"]
  /\ UNCHANGED <<conversion_queue, queue_status, active_conversions,
                 active_conversions_lock, convert_calls, witem, wres,
                 hpc, hitem, uploaded>>
  /\ UNCHANGED <<mvars, fvars>>

SettleWrite(w) ==
  /\ wpc[w] = "settle_locked"
  /\ queue_status' = FinishStatus(queue_status, witem[w], wres[w])
  /\ wpc' = [wpc EXCEPT ![w] = "settle_written"]
  /\ UNCHANGED <<conversion_queue, active_conversions,
                 active_conversions_lock, queue_lock, convert_calls,
                 witem, wres, hpc, hitem, uploaded>>
  /\ UNCHANGED <<mvars, fvars>>

SettleUnlock(w) ==
  /\ wpc[w] = "settle_written"
  /\ ReleaseQueueLock(w)
  /\ wpc' = [wpc EXCEPT ![w] = "release"]
  /\ UNCHANGED <<conversion_queue, queue_status, active_conversions,
                 active_conversions_lock, convert_calls, witem, wres,
                 hpc, hitem, uploaded>>
  /\ UNCHANGED <<mvars, fvars>>

LockedWorker(w) ==
  \/ WorkerGet(w)
  \/ MarkLock(w)
  \/ MarkWrite(w)
  \/ MarkUnlock(w)
  \/ WorkerRequeue(w)
  \/ WorkerWake(w)
  \/ WorkerAdmit(w)
  \/ ConvertReturn(w)
  \/ SettleLock(w)
  \/ SettleWrite(w)
  \/ SettleUnlock(w)
  \/ WorkerRelease(w)

LockedHandler ==
  \/ HandlerReject
  \/ HandlerPut
  \/ HandlerLock
  \/ HandlerWrite
  \/ HandlerUnlock

LockNext ==
  \/ LockedHandler
  \/ \E w \in Workers : LockedWorker(w)

\* The conversion queue with the status lock made visible.
LockSpec == Init /\ [][LockNext]_vars

\* The thread that takes the step, if the step moves a thread.
Stepped(t) ==
  IF t = HandlerThread THEN hpc' # hpc ELSE wpc'[t] # wpc[t]

\* A step that changes the status table is taken by the thread that holds
\* queue_lock, and that thread keeps the lock over the step.
WriteUnderLock ==
  queue_status' # queue_status =>
    /\ queue_lock # NoThread
    /\ queue_lock' = queue_lock
    /\ Stepped(queue_lock)

\* Worker w is inside convert_webm_to_mp4 or inside time.sleep(1).
InExternalCall(w) == wpc[w] \in {"convert", "sleep"}

\* C22: every write to queue_status is made by a thread that holds
\* queue_lock, and a thread that is inside convert_webm_to_mp4 or inside a
\* sleep does not hold queue_lock.
C22_StatusWritesUnderLock ==
  /\ [][WriteUnderLock]_vars
  /\ [](\A w \in Workers : InExternalCall(w) => queue_lock # w)

\* C22 witness: a worker has written a terminal status and still holds
\* queue_lock, while another worker is inside the conversion call and a
\* third one sleeps at the cap.
C22_Witness ==
  \E w, c, s \in Workers :
    /\ wpc[w] = "settle_written"
    /\ queue_lock = w
    /\ StatusOf(witem[w]) \in {"completed", "error"}
    /\ wpc[c] = "convert"
    /\ wpc[s] = "sleep"

\* ------------------------------------------------------------------------
\* Properties of the fatal stages
\* ------------------------------------------------------------------------
\* The scale/pad step or the slideshow assembly has failed.
FrameStageFailed ==
  \/ unit.stage_out["scale"] \in {"nonzero", "timeout"}
  \/ unit.stage_out["slideshow"] \in {"nonzero", "timeout"}

LaterStages == {"subtitles", "watermark", "mux"}

\* C23: a failure of the scale/pad step or of the slideshow assembly is
\* fatal: no later stage (subtitle burn-in, watermark, audio mux) is invoked
\* after it, and a job that has returned has returned a failure.
C23_FrameFailureIsFatal ==
  (Compositing /\ FrameStageFailed) =>
    /\ \A s \in LaterStages : unit.stage_out[s] = "none"
    /\ JobReturned => ~JobSucceeded

\* ------------------------------------------------------------------------
\* Properties of the scratch directory of a unit
\* ------------------------------------------------------------------------
\* The only place where the scratch directory is removed is the success
\* path of create_video_from_product_data: a directory still present after
\* a return is one whose removal was attempted there and failed.
RemovalFailed == entry = "csv_ffmpeg" /\ JobSucceeded

\* C24: when the processing of a unit has returned, on the success path and
\* on every failure path, the scratch directory created for it has been
\* deleted, unless the deletion itself failed.
C24_ScratchDirDeleted ==
  (Compositing /\ JobReturned /\ unit.temp_dir # "none") =>
     (unit.temp_dir = "deleted" \/ RemovalFailed)

\* C25: the cue indices written to a subtitle file are 1, 2, 3, ... in
\* order: a blank fragment produces no cue and consumes no index, so the
\* k-th cue written carries index k.
C25_CueIndicesConsecutive ==
  fpc \in {"sentences", "written"} =>
    \A k \in 1..Len(flocals.cues) : flocals.cues[k].index = k

\* ------------------------------------------------------------------------
\* Properties of the rows without images
\* ------------------------------------------------------------------------
\* The manifest entries that report a row as having no image.
NoImageEntries ==
  {n \in 1..Len(product_videos) :
     /\ product_videos[n].error
     /\ product_videos[n].message = "No valid images found for product"}

\* C26: a data row that yields zero images is skipped silently: the
\* manifest of the batch never holds an error entry for such a row.
C26_NoImageRowSkipped ==
  entry \in {"csv_ffmpeg", "csv_legacy"} => NoImageEntries = {}

\* ------------------------------------------------------------------------
\* The conversion queue under fair scheduling: a handler that has put an
\* item goes on to write its status, every worker thread keeps running and
\* gets a lock it waits for, and every conversion call returns
\* ------------------------------------------------------------------------
QFairness ==
  /\ WF_vars(HandlerInit)
  /\ \A w \in Workers : SF_vars(process_conversion_queue(w))

QLiveSpec == Init /\ [][QNext]_vars /\ QFairness

Settled(j) == StatusOf(j) \in {"completed", "error"}

\* C27: under fair scheduling, with every conversion call returning, every
\* item accepted by the bulk-enqueue handler eventually has job status
\* 'completed' or 'error' and keeps it forever.
C27_EventuallySettled ==
  \A j \in Jobs : [](Enqueued(j) => <>[]Settled(j))

\* ------------------------------------------------------------------------
\* Properties of the counter lock
\* ------------------------------------------------------------------------
Sleeping(w) == wpc[w] = "sleep"

\* Worker w has finished its conversion and waits for the counter lock that
\* a sleeping worker holds.
WaitsForSleeper(w) ==
  /\ wpc[w] = "release"
  /\ \E s \in Workers : Sleeping(s) /\ active_conversions_lock = s

\* C28: no worker sleeps while it holds active_conversions_lock, so a
\* worker that has finished a conversion never waits for a sleeping worker
\* before it can release its slot.
C28_NoSleepUnderCounterLock ==
  \A w \in Workers :
    /\ Sleeping(w) => active_conversions_lock # w
    /\ ~WaitsForSleeper(w)

\* ------------------------------------------------------------------------
\* Properties of the scenes of a render request
\* ------------------------------------------------------------------------
\* The frames are saved and num_scenes and durations are computed.
ScenesDerived == entry = "render" /\ unit.frames > 0

\* C29: when the concat playlist and the subtitle file are built, the
\* durations list has exactly num_scenes entries, whatever startTime and
\* endTime the scenes carry, so that durations[i] exists for every scene i
\* and no duration index is out of range.
C29_DurationPerScene ==
  ScenesDerived => unit.durations = unit.num_scenes

\* The request had at least one image and an audio source that was saved
\* (render_video_from_assets got as far as the frames).
RenderAccepted ==
  entry = "render" /\ unit.image_count >= 1 /\ unit.temp_dir = "present"
    /\ ret # Response(400, "audioSrc cannot be used")

\* C30: a render request with at least one image and a valid audio source
\* is never rejected with 'No valid frames available', whatever the number
\* of scenes; its frame list is not empty and 1 <= num_scenes <= number of
\* frames, so that every frame index of the playlist is below the number of
\* frames.
C30_FramesForEveryRequest ==
  RenderAccepted =>
    /\ ret # Response(400, "No valid frames available")
    /\ ScenesDerived => (1 <= unit.num_scenes /\ unit.num_scenes <= unit.frames)

====
